---- MODULE Spec2Model ----
(***************************************************************************)
(* jupyterlab-hybrid-kernels: the routers (HybridKernelManager,            *)
(* HybridSessionManager, HybridKernelClient) and the merged kernel spec    *)
(* registry (HybridKernelSpecManager).                                     *)
(***************************************************************************)
EXTENDS Integers, Sequences, FiniteSets, TLC

VARIABLES
  mode,         \* getHybridKernelsMode(): "hybrid" | "remote", fixed at start
  cfgBaseUrl,   \* PageConfig hybridKernelsBaseUrl
  cfgToken,     \* PageConfig hybridKernelsToken
  liteNames,    \* the kernel names registered with the in-process IKernelSpecs
  specs,        \* HybridKernelSpecManager._specs
  emitCount,    \* number of specsChanged emissions so far
  nStarted,     \* number of refreshSpecs() calls started so far
  calls,        \* the refreshSpecs() calls in flight, one record per slot
  lastDone,     \* what the most recently settled refreshSpecs() saw and did
  hsmBuilt,     \* the HybridSessionManager, and its HybridKernelClient, exist
  kernels,      \* per kernel id: which backend runs it, and under which name
  liteKRun,     \* ids in _liteKernelManager.running() (the manager's cache)
  liteKernelIds,\* HybridKernelClient._liteKernelIds
  sessions,     \* per session id: which backend runs it, and its kernel id
  liteSRun,     \* ids in _liteSessionManager.running()
  last,         \* the most recent call on a router and what it delegated
  bulk,         \* the most recent call that addresses both backends at once
  remKRun,      \* ids in _kernelManager.running() (the remote manager's cache)
  remSRun,      \* ids in _sessionManager.running()
  outward,      \* per manager: what its last backend events made it emit
  isReady,      \* per backend manager: its isReady
  readyPromise, \* per hybrid manager: the promise its `ready` last returned
  life,         \* HybridKernelSpecManager: _ready, _isReady, _pollSpecs, isDisposed
  promo,        \* the most recent call on the KernelPromoter and what it did
  conn,         \* RemoteServerConfig._isConnected, the configure command's probes
  paths,        \* per session id its path, and the most recent stopIfNeeded
  prefs         \* the promoter's settings: the user's, the plugin's, the promoter's

refreshVars == <<mode, cfgBaseUrl, cfgToken, liteNames, specs,
                 emitCount, nStarted, calls, lastDone, life>>

routeVars == <<hsmBuilt, kernels, liteKRun, liteKernelIds, sessions, liteSRun, last>>

manageVars == <<bulk, isReady, readyPromise, promo>>

listVars == <<remKRun, remSRun, outward>>

appVars == <<conn, paths, prefs>>

vars == <<refreshVars, routeVars, manageVars, listVars, appVars>>

----------------------------------------------------------------------------
(* Bounds of the model *)
MaxCalls == 2       \* refreshSpecs() calls that may overlap
MaxRefreshes == 2   \* refreshSpecs() calls explored in one behaviour
MaxKernels == 2     \* kernel ids the two backends hand out
MaxSessions == 1    \* session ids the two backends hand out

----------------------------------------------------------------------------
(* JavaScript values: every value is a tagged record *)
Undef == [t |-> "undef"]
Null == [t |-> "null"]
Str(s) == [t |-> "str", v |-> s]
Num(n) == [t |-> "num", v |-> n]
Obj(f) == [t |-> "obj", v |-> f]
EmptyMap == <<>>
EmptyObj == Obj(EmptyMap)
EmptyArr == [t |-> "arr", v |-> <<>>]

Nullish(x) == x.t \in {"undef", "null"}
\* a ?? b
Coalesce(a, b) == IF Nullish(a) THEN b ELSE a
\* !!x
Truthy(x) ==
  CASE x.t \in {"undef", "null"} -> FALSE
    [] x.t = "str" -> x.v # ""
    [] x.t = "num" -> x.v # 0
    [] OTHER -> TRUE
\* x.k on a value that is not null or undefined
Get(x, k) == IF x.t = "obj" /\ k \in DOMAIN x.v THEN x.v[k] ELSE Undef
\* x?.k
OptGet(x, k) == IF Nullish(x) THEN Undef ELSE Get(x, k)
\* the own enumerable keys of x, as Object.entries(x) and {...x} see them
KeysOf(x) == IF x.t = "obj" THEN DOMAIN x.v ELSE {}
\* a spread in which the first object's properties win
SpreadFirstWins(a, b) ==
  [k \in KeysOf(a) \cup KeysOf(b) |-> IF k \in KeysOf(a) THEN a.v[k] ELSE b.v[k]]
\* {...a, ...b}: b's properties laid over a's; spreading undefined adds nothing
Spread(a, b) ==
  [k \in KeysOf(a) \cup KeysOf(b) |-> IF k \in KeysOf(b) THEN b.v[k] ELSE a.v[k]]

----------------------------------------------------------------------------
(* Strings and URLs *)
StartsWith(s, p) == Len(s) >= Len(p) /\ SubSeq(s, 1, Len(p)) = p
EndsWith(s, p) == Len(s) >= Len(p) /\ SubSeq(s, Len(s) - Len(p) + 1, Len(s)) = p
Includes(s, c) == \E i \in 1..Len(s) : SubSeq(s, i, i) = c

\* encodeURIComponent on one character: the unreserved characters stay
EncodeChar(c) ==
  CASE c = " " -> "%20"
    [] c = "&" -> "%26"
    [] c = "?" -> "%3F"
    [] c = "=" -> "%3D"
    [] c = "/" -> "%2F"
    [] OTHER -> c
RECURSIVE encodeURIComponent(_)
encodeURIComponent(s) ==
  IF Len(s) = 0 THEN ""
  ELSE EncodeChar(SubSeq(s, 1, 1)) \o encodeURIComponent(SubSeq(s, 2, Len(s)))

\* the length of the scheme prefix of an absolute http(s) URL, 0 when none
SchemeLen(u) ==
  IF StartsWith(u, "https://") THEN 8 ELSE IF StartsWith(u, "http://") THEN 7 ELSE 0
\* new URL(u) succeeds: an absolute URL with a host
ValidUrl(u) ==
  SchemeLen(u) > 0 /\ Len(u) > SchemeLen(u) /\ SubSeq(u, SchemeLen(u) + 1, SchemeLen(u) + 1) # "/"
\* new URL(u).origin: scheme and host, without the path
UrlOrigin(u) ==
  LET slashes == {i \in (SchemeLen(u) + 1)..Len(u) : SubSeq(u, i, i) = "/"}
  IN  IF slashes = {} THEN u
      ELSE SubSeq(u, 1, (CHOOSE i \in slashes : \A j \in slashes : i <= j) - 1)
\* URLExt.join(base, path) for a base ending in "/" and a plain relative path
UrlJoin(base, path) == IF EndsWith(base, "/") THEN base \o path ELSE base \o "/" \o path

----------------------------------------------------------------------------
(* config.ts: the dynamic server settings *)
DefaultBaseUrl == "http://localhost:8888/"

\* a settings object that keeps the base URL it was built with
BaseUrlAsBuilt == DefaultBaseUrl

\* config.ts 110-116 for what PageConfig holds
SettingsBaseUrlFor(baseUrl) ==
  IF baseUrl = "" THEN DefaultBaseUrl
  ELSE IF EndsWith(baseUrl, "/") THEN baseUrl ELSE baseUrl \o "/"

\* createServerSettings().baseUrl
SettingsBaseUrl == SettingsBaseUrlFor(cfgBaseUrl)
\* createServerSettings().token
SettingsToken == cfgToken

DefaultWsUrl == "ws://localhost:8888/"

\* config.ts 127: baseUrl.replace(/^http/, 'ws')
HttpToWs(url) ==
  IF StartsWith(url, "http") THEN "ws" \o SubSeq(url, 5, Len(url)) ELSE url

\* createServerSettings().wsUrl
SettingsWsUrl ==
  IF cfgBaseUrl = "" THEN DefaultWsUrl
  ELSE LET wsUrl == HttpToWs(cfgBaseUrl)
       IN  IF EndsWith(wsUrl, "/") THEN wsUrl ELSE wsUrl \o "/"

----------------------------------------------------------------------------
(* kernelspec.ts: _transformRemoteSpecResources *)

\* a rewriting that joins a root-relative value onto the whole baseUrl
AbsoluteUrlOnFullBase(resourcePath, baseUrl) ==
  IF StartsWith(resourcePath, "http://") \/ StartsWith(resourcePath, "https://")
  THEN resourcePath
  ELSE UrlJoin(baseUrl, resourcePath)

\* lines 213-226: the absolute URL of one string resource value
AbsoluteUrl(resourcePath, baseUrl) ==
  IF StartsWith(resourcePath, "http://") \/ StartsWith(resourcePath, "https://")
  THEN resourcePath
  ELSE IF StartsWith(resourcePath, "/")
  THEN UrlOrigin(baseUrl) \o resourcePath
  ELSE UrlJoin(baseUrl, resourcePath)

\* a token always attached with "?"
WithTokenAfterQuestionMark(url, token) ==
  IF token # "" THEN url \o "?token=" \o encodeURIComponent(token) ELSE url

\* lines 229-235: the token appended as a query parameter
WithToken(url, token) ==
  IF token # ""
  THEN url \o (IF Includes(url, "?") THEN "&" ELSE "?") \o "token=" \o encodeURIComponent(token)
  ELSE url

\* line 221: new URL(baseUrl) throws on a base that is no absolute URL
RewriteThrows(resourcePath, baseUrl) ==
  /\ ~(StartsWith(resourcePath, "http://") \/ StartsWith(resourcePath, "https://"))
  /\ StartsWith(resourcePath, "/")
  /\ ~ValidUrl(baseUrl)

\* lines 207-236: the string-valued resources, each rewritten
TransformResources(resources, baseUrl, token) ==
  LET keys == {k \in KeysOf(resources) : resources.v[k].t = "str"}
  IN  Obj([k \in keys |-> Str(WithToken(AbsoluteUrl(resources.v[k].v, baseUrl), token))])

\* an unwrapping that reads the envelope itself
SpecOfEnvelope(rawSpec) == rawSpec

\* lines 201-202
SpecOf(rawSpec) == Coalesce(Get(rawSpec, "spec"), rawSpec)
ResourcesOf(rawSpec) ==
  Coalesce(Get(rawSpec, "resources"), Coalesce(Get(SpecOf(rawSpec), "resources"), EmptyObj))

\* lines 238-246: the normalised entry
TransformEntry(name, rawSpec, baseUrl, token) ==
  LET spec == SpecOf(rawSpec)
  IN  Obj([k \in {"name", "display_name", "language", "argv", "env", "metadata", "resources"} |->
        CASE k = "name" -> Coalesce(Get(spec, "name"), Str(name))
          [] k = "display_name" -> Coalesce(Get(spec, "display_name"), Str(name))
          [] k = "language" -> Coalesce(Get(spec, "language"), Str(""))
          [] k = "argv" -> Coalesce(Get(spec, "argv"), EmptyArr)
          [] k = "env" -> Coalesce(Get(spec, "env"), EmptyObj)
          [] k = "metadata" -> Coalesce(Get(spec, "metadata"), EmptyObj)
          [] OTHER -> TransformResources(ResourcesOf(rawSpec), baseUrl, token)])

\* line 193 throws when kernelspecs is null or undefined (Object.entries),
\* line 221 when a root-relative resource meets an unparsable baseUrl
TransformThrows(specsIn, baseUrl) ==
  /\ Truthy(specsIn)
  /\ \/ Nullish(Get(specsIn, "kernelspecs"))
     \/ \E name \in KeysOf(Get(specsIn, "kernelspecs")) :
          LET rawSpec == Get(specsIn, "kernelspecs").v[name]
              res == ResourcesOf(rawSpec)
          IN  /\ Truthy(rawSpec)
              /\ \E k \in KeysOf(res) :
                   res.v[k].t = "str" /\ RewriteThrows(res.v[k].v, baseUrl)

\* lines 181-253, when it does not throw
TransformRemoteSpecResources(specsIn, baseUrl, token) ==
  IF ~Truthy(specsIn) THEN specsIn
  ELSE
    LET ks == Get(specsIn, "kernelspecs")
        kept == {name \in KeysOf(ks) : Truthy(ks.v[name])}
        transformedKernelspecs ==
          Obj([name \in kept |-> TransformEntry(name, ks.v[name], baseUrl, token)])
    IN  Obj(Spread(specsIn, Obj("kernelspecs" :> transformedKernelspecs)))

----------------------------------------------------------------------------
(* The two sources of kernel specs *)

\* an ISpecModel as a backend holds it
SpecModel(name, display, resources) ==
  Obj([k \in {"name", "display_name", "language", "argv", "env", "metadata", "resources"} |->
        CASE k = "name" -> Str(name)
          [] k = "display_name" -> Str(display)
          [] k = "language" -> Str("python")
          [] k = "argv" -> EmptyArr
          [] k = "env" -> EmptyObj
          [] k = "metadata" -> EmptyObj
          [] OTHER -> Obj(resources)])

\* the in-process engine's registry for a set of registered kernel names:
\* IKernelSpecs.specs is null while no kernel is registered
LiteNames == {"pyodide", "python3"}
LiteEntry(n) ==
  SpecModel(n, IF n = "python3" THEN "Local Python" ELSE "Pyodide",
            "logo-64x64" :> Str("/lite/" \o n \o "/logo.svg"))
LiteRegistry(names) ==
  IF names = {} THEN Null
  ELSE Obj(("default" :> Str(IF "pyodide" \in names THEN "pyodide" ELSE "python3"))
           @@ ("kernelspecs" :> Obj([n \in names |-> LiteEntry(n)])))

\* a well-formed flat registry, as the validated local-server manager holds it
FlatPayload ==
  Obj(("default" :> Str("python3"))
      @@ ("kernelspecs" :> Obj(
           ("python3" :> SpecModel("python3", "Remote Python",
                ("logo-64x64" :> Str("/kernelspecs/python3/logo.png"))
                @@ ("kernel.js" :> Str("kernelspecs/python3/kernel.js?v=1"))
                @@ ("kernel.css" :> Str("https://cdn.example/kernel.css"))))
           @@ ("ir" :> SpecModel("ir", "R", "logo-64x64" :> Str("kernelspecs/ir/logo.png"))))))
\* the Jupyter Server envelope, {name, spec: {...}, resources}: one as the
\* server sends it, one whose inner spec and outside disagree on name and
\* resources, one with resources on the inner level only, and a flat entry
\* with a null field
NestedPayload ==
  Obj(("default" :> Str("python3"))
      @@ ("kernelspecs" :> Obj(
           ("python3" :> Obj(("name" :> Str("python3"))
                             @@ ("spec" :> Obj(("display_name" :> Str("Remote Python"))
                                               @@ ("language" :> Str("python"))))
                             @@ ("resources" :> Obj("logo-64x64" :>
                                   Str("/kernelspecs/python3/logo.png")))))
           @@ ("julia" :> Obj(("name" :> Str("julia-env"))
                              @@ ("spec" :> Obj(("name" :> Str("julia-1.10"))
                                                @@ ("display_name" :> Str("Julia"))
                                                @@ ("language" :> Str("julia"))
                                                @@ ("resources" :> Obj("logo-64x64" :>
                                                      Str("kernelspecs/julia/inner.png")))))
                              @@ ("resources" :> Obj("logo-64x64" :>
                                    Str("kernelspecs/julia/logo.png")))))
           @@ ("ir" :> Obj("spec" :> Obj(("language" :> Str("R"))
                                         @@ ("resources" :> Obj("kernel.js" :>
                                               Str("kernelspecs/ir/kernel.js"))))))
           @@ ("bash" :> Obj(("display_name" :> Str("Bash")) @@ ("language" :> Null))))))
\* entries that are null, that lack fields, that hold a non-string resource
SparsePayload ==
  Obj("kernelspecs" :> Obj(
        ("ir" :> Null)
        @@ ("python3" :> Obj("resources" :> Obj(("logo-64x64" :> Num(64))
                                                @@ ("kernel.js" :> Str("kernel.js")))))))
\* a server with no kernel installed
EmptyPayload == Obj(("default" :> Str("")) @@ ("kernelspecs" :> Obj(EmptyMap)))
\* an answer without the kernelspecs map
NoMapPayload == Obj("default" :> Str("python3"))

RemotePayloads == {FlatPayload, NestedPayload, SparsePayload, EmptyPayload, NoMapPayload, Null}
HybridPayloads == {FlatPayload}
BaseUrls == {"", "https://host/prefix", "hub"}
Tokens == {"", "a b"}

----------------------------------------------------------------------------
(* kernelspec.ts: HybridKernelSpecManager.refreshSpecs *)

Slots == 1..MaxCalls
IdleCall == [pc |-> "idle", url |-> "", serverSpecs |-> Null, serverFailed |-> FALSE]
NoRefresh ==
  [outcome |-> "none", serverSpecs |-> Null, serverFailed |-> FALSE, liteSpecs |-> Null,
   prevSpecs |-> Null, prevEmit |-> 0, baseUrl |-> "", token |-> ""]

\* what the server side may answer when it answers: in hybrid mode the local
\* server manager's validated registry, in remote mode the raw JSON body
ServerPayloads == IF mode = "hybrid" THEN HybridPayloads ELSE RemotePayloads

\* IKernelSpecs.specs, which LiteKernelSpecClient serves to the lite manager
LiteSpecs == LiteRegistry(liteNames)

\* lines 119-151 up to the first await, for what the settings answer
BeginRefreshWith(baseUrl, token) ==
  LET isRemoteConfigured == baseUrl # ""
      specsUrl == UrlJoin(baseUrl, "api/kernelspecs")
      urlWithToken == IF token # "" THEN specsUrl \o "?token=" \o encodeURIComponent(token)
                      ELSE specsUrl
  IN  IF mode = "hybrid" THEN [IdleCall EXCEPT !.pc = "server"]
      ELSE IF isRemoteConfigured THEN [IdleCall EXCEPT !.pc = "server", !.url = urlWithToken]
      ELSE [IdleCall EXCEPT !.pc = "lite"]

\* lines 119-151 up to the first await: where the call waits next
BeginRefresh == BeginRefreshWith(SettingsBaseUrl, SettingsToken)

\* any caller of refreshSpecs(): the poll, the plugin, the configure command
RefreshStart(c) ==
  /\ calls[c].pc = "idle"
  /\ nStarted < MaxRefreshes
  /\ calls' = [calls EXCEPT ![c] = BeginRefresh]
  /\ nStarted' = nStarted + 1
  /\ UNCHANGED <<mode, cfgBaseUrl, cfgToken, liteNames, specs, emitCount, lastDone, life, appVars>>
  /\ UNCHANGED <<routeVars, manageVars, listVars>>

\* a server side whose last good answer outlives a failure
StaleServerResult(outcome, payload) == IF outcome = "ok" THEN payload ELSE FlatPayload

\* lines 123-131 and 141-149: serverSpecs is assigned only when the server
\* side answered, and stays null when it failed or refused
ServerResult(outcome, payload) == IF outcome = "ok" THEN payload ELSE Null

\* lines 126-131 and 141-149: the server side answers, fails or is refused;
\* either way the call goes on to the in-process refresh
RefreshServerDone(c) ==
  /\ calls[c].pc = "server"
  /\ \E outcome \in {"ok", "notok", "error"}, payload \in ServerPayloads \cup {Null} :
       /\ mode = "hybrid" => outcome # "notok"
       /\ IF outcome = "ok" THEN payload \in ServerPayloads ELSE payload = Null
       /\ calls' = [calls EXCEPT ![c] =
            [@ EXCEPT !.pc = "lite",
                      !.serverSpecs = ServerResult(outcome, payload),
                      !.serverFailed = (outcome # "ok")]]
  /\ UNCHANGED <<mode, cfgBaseUrl, cfgToken, liteNames, specs, emitCount,
                 nStarted, lastDone, life, appVars>>
  /\ UNCHANGED <<routeVars, manageVars, listVars>>

\* a registry updated in place: the entries of this call written over the
\* ones the registry already holds
MergedOntoCurrent(serverSpecs, transformedServerSpecs, newLiteSpecs) ==
  Obj(("default" :> Coalesce(OptGet(serverSpecs, "default"),
                             Coalesce(OptGet(newLiteSpecs, "default"), Str(""))))
      @@ ("kernelspecs" :> Obj(Spread(Obj(Spread(OptGet(specs, "kernelspecs"),
                                                 OptGet(transformedServerSpecs, "kernelspecs"))),
                                      OptGet(newLiteSpecs, "kernelspecs")))))

\* lines 165-171: the registry built from the two sides
MergedSpecs(serverSpecs, transformedServerSpecs, newLiteSpecs) ==
  Obj(("default" :> Coalesce(OptGet(serverSpecs, "default"),
                             Coalesce(OptGet(newLiteSpecs, "default"), Str(""))))
      @@ ("kernelspecs" :> Obj(Spread(OptGet(transformedServerSpecs, "kernelspecs"),
                                      OptGet(newLiteSpecs, "kernelspecs")))))

\* a rewriting that does not look at the mode
TransformedInEveryMode(serverSpecs) ==
  TransformRemoteSpecResources(serverSpecs, SettingsBaseUrl, SettingsToken)

\* lines 160-163
TransformedServerSpecs(serverSpecs) ==
  IF mode = "remote"
  THEN TransformRemoteSpecResources(serverSpecs, SettingsBaseUrl, SettingsToken)
  ELSE serverSpecs

\* lines 153-175 from the point where the in-process refresh settles to the
\* end of the call: the registry, the emission count and the record of the call
SettleRefresh(serverSpecs, serverFailed, liteOk, curSpecs, curEmit) ==
  LET newLiteSpecs == LiteSpecs
      seen == [NoRefresh EXCEPT !.serverSpecs = serverSpecs,
                                !.serverFailed = serverFailed,
                                !.liteSpecs = IF liteOk THEN newLiteSpecs ELSE Null,
                                !.prevSpecs = curSpecs, !.prevEmit = curEmit,
                                !.baseUrl = SettingsBaseUrl, !.token = SettingsToken]
      kept(outcome) == [specs |-> curSpecs, emitCount |-> curEmit,
                        lastDone |-> [seen EXCEPT !.outcome = outcome]]
  IN  IF ~liteOk THEN kept("rejected")
      ELSE IF ~Truthy(serverSpecs) /\ ~Truthy(newLiteSpecs) THEN kept("skipped")
      ELSE IF mode = "remote" /\ TransformThrows(serverSpecs, SettingsBaseUrl)
      THEN kept("threw")
      ELSE [specs |-> MergedSpecs(serverSpecs, TransformedServerSpecs(serverSpecs),
                                  newLiteSpecs),
            emitCount |-> curEmit + 1,
            lastDone |-> [seen EXCEPT !.outcome = "rebuilt"]]

\* the in-process refresh of a call settles and the call runs to its end
RefreshLiteDone(c) ==
  /\ calls[c].pc = "lite"
  /\ \E liteOk \in BOOLEAN :
       LET r == SettleRefresh(calls[c].serverSpecs, calls[c].serverFailed, liteOk,
                              specs, emitCount)
       IN  /\ specs' = r.specs
           /\ emitCount' = r.emitCount
           /\ lastDone' = r.lastDone
  /\ calls' = [calls EXCEPT ![c] = IdleCall]
  /\ UNCHANGED <<mode, cfgBaseUrl, cfgToken, liteNames, nStarted, life, appVars>>
  /\ UNCHANGED <<routeVars, manageVars, listVars>>

\* IKernelSpecs.register: a kernel registers and kernelSpecs.changed fires,
\* whose handler (lines 42-44) starts a refreshSpecs()
RegisterLiteSpec(n, c) ==
  /\ n \in LiteNames \ liteNames
  /\ calls[c].pc = "idle"
  /\ nStarted < MaxRefreshes
  /\ liteNames' = liteNames \cup {n}
  /\ calls' = [calls EXCEPT ![c] = BeginRefresh]
  /\ nStarted' = nStarted + 1
  /\ UNCHANGED <<mode, cfgBaseUrl, cfgToken, specs, emitCount, lastDone, life, appVars>>
  /\ UNCHANGED <<routeVars, manageVars, listVars>>

----------------------------------------------------------------------------
(* The two backends and the three routers *)

KernelIds == 1..MaxKernels
SessionIds == 1..MaxSessions
ServerNames == {"python3", "ir"}          \* kernel names the server can start
KernelNames == LiteNames \cup ServerNames
NoKernel == [where |-> "none", name |-> ""]
NoSession == [where |-> "none", kernel |-> 0]
\* ids are UUIDs: one that has been shut down is never handed out again, and
\* no backend remembers under which name it ran
Gone(kernel) == [where |-> "gone", name |-> ""]
GoneSession == [where |-> "gone", kernel |-> 0]
NoCall == [router |-> "none", op |-> "none", id |-> 0, name |-> "", inLocal |-> FALSE,
           lite |-> 0, remote |-> 0, nop |-> "none", nlite |-> 0, nremote |-> 0,
           known |-> FALSE, ends |-> "none", err |-> "none"]

LiteKernels == {k \in KernelIds : kernels[k].where = "lite"}
LiteSessions == {x \in DOMAIN sessions : sessions[x].where = "lite"}
RemoteKernels == {k \in KernelIds : kernels[k].where = "remote"}
RemoteSessions == {x \in DOMAIN sessions : sessions[x].where = "remote"}
\* a backend lists its items in a fixed order of its own
RECURSIVE Listed(_)
Listed(ids) ==
  IF ids = {} THEN <<>>
  ELSE LET least == CHOOSE i \in ids : \A j \in ids : i <= j
       IN  <<least>> \o Listed(ids \ {least})

\* kernelspec.ts 392-400, part_003 364-372: running(), the remote manager's
\* items followed by the in-browser manager's
RunningOf(remote, lite) == Listed(remote) \o Listed(lite)

\* a handler that passes the backend's own list on
ForwardRaw(raw, merged) == <<raw>>

\* kernelspec.ts 326-333, part_003 294-302: the handler connected to each
\* backend manager's runningChanged emits Array.from(this.running()), once
Forward(raw, merged) == <<merged>>

\* one refresh of a backend manager's list
Update(side, list) == [side |-> side, list |-> list]

\* what a hybrid manager has emitted: the payloads, and what running() was at
\* each backend event
NoSignal == [payloads |-> <<>>, moments |-> <<>>]

\* a backend manager emits runningChanged when a refresh changes its list; the
\* hybrid manager's handlers run at once, each seeing the lists as they are then
RECURSIVE Emitted(_, _, _)
Emitted(updates, remote, lite) ==
  IF updates = <<>> THEN NoSignal
  ELSE LET u == Head(updates)
           r == IF u.side = "remote" THEN u.list ELSE remote
           l == IF u.side = "lite" THEN u.list ELSE lite
           rest == Emitted(Tail(updates), r, l)
       IN  IF r = remote /\ l = lite THEN rest
           ELSE [payloads |-> Forward(Listed(u.list), RunningOf(r, l)) \o rest.payloads,
                 moments |-> <<RunningOf(r, l)>> \o rest.moments]

\* the list of one side once the updates are through
After(side, updates, list) ==
  LET at == {i \in DOMAIN updates : updates[i].side = side}
  IN  IF at = {} THEN list
      ELSE updates[CHOOSE i \in at : \A j \in at : j <= i].list

\* the emissions of the latest events, those before if there was no event
Signals(before, updates, remote, lite) ==
  LET e == Emitted(updates, remote, lite)
  IN  IF e.moments = <<>> THEN before ELSE e
FreeKernels == {k \in KernelIds : kernels[k].where = "none"}
FreeSessions == {x \in DOMAIN sessions : sessions[x].where = "none"}
SessionKernels == {sessions[x].kernel : x \in {y \in DOMAIN sessions : sessions[y].where \in {"lite", "remote"}}}
FreshKernel == CHOOSE k \in FreeKernels : \A j \in FreeKernels : k <= j
FreshSession == CHOOSE x \in FreeSessions : \A j \in FreeSessions : x <= j

\* keys of the registry published as HybridKernelSpecManager.specs
MergedNames == KeysOf(OptGet(specs, "kernelspecs"))

\* a start routed on the merged registry instead of the in-browser one
HasMergedSpec(name) == name # "" /\ name \in MergedNames

\* `name && this._liteKernelSpecs.specs?.kernelspecs[name]`
\* (kernelspec.ts 430, part_003 395, kernelclient.ts 60)
HasLiteSpec(name) == name # "" /\ Truthy(OptGet(OptGet(LiteSpecs, "kernelspecs"), name))

\* kernelspec.ts 470-476: HybridKernelManager._isLiteKernel
IsLiteKernelKM(id, name) ==
  LET liteRunning == liteKRun
      hasSpec == Truthy(OptGet(OptGet(LiteSpecs, "kernelspecs"), name))
      running == id \in liteRunning
  IN  running \/ hasSpec
\* part_003 456-461: HybridSessionManager._isLiteSession
IsLiteSession(id) == id \in liteSRun
\* kernelclient.ts 150-152: HybridKernelClient._isLiteKernel
IsLiteKernelKC(id) == id \in liteKernelIds

\* a handler whose local branch falls through to the remote call
DelegateFallThrough(isLite) ==
  [lite |-> IF isLite THEN 1 ELSE 0, remote |-> 1]

\* `if (c) { return lite...; } return remote...;`: how often each backend is called
Delegate(isLite) ==
  [lite |-> IF isLite THEN 1 ELSE 0, remote |-> IF isLite THEN 0 ELSE 1]

\* kernelclient.ts 27-34: the listener on the in-browser client's changed signal
OnLiteAdd(id) == IF hsmBuilt THEN liteKernelIds \cup {id} ELSE liteKernelIds
OnLiteRemove(id) == IF hsmBuilt THEN liteKernelIds \ {id} ELSE liteKernelIds

Call(router, op, id, name, inLocal, d) ==
  [NoCall EXCEPT !.router = router, !.op = op, !.id = id, !.name = name,
                 !.inLocal = inLocal, !.lite = d.lite, !.remote = d.remote]

\* the name the server gives a kernel started without one
ServedName(name) == IF name = "" THEN "python3" ELSE name

\* how the server ends a call: out of reach, or not running the kernel (not
\* serving the name), or done
RemoteEnds(op, id, name, ok) ==
  IF ~ok THEN "network"
  ELSE IF op = "startNew"
       THEN (IF ServedName(name) \in ServerNames
             THEN "none" ELSE "not-found")
       ELSE (IF kernels[id].where = "remote" THEN "none" ELSE "not-found")

\* how the in-browser client ends a call: done, or whatever it does with the id
\* of a kernel it does not run
LiteEnds(op, id) ==
  IF op = "startNew" \/ kernels[id].where = "lite" THEN "none" ELSE "unknown-to-lite"

\* `return backend.op(...)` and `await backend.op(...)` in an async method: the
\* returned promise ends as the backend's does
Rejection(backendEnd) == backendEnd

\* the call as the caller sees it end, the chosen backend having ended with
\* liteEnd or remoteEnd
Ended(call, known, liteEnd, remoteEnd) ==
  LET backendEnd == IF call.lite = 1 THEN liteEnd ELSE remoteEnd
  IN  [call EXCEPT !.known = known, !.ends = backendEnd, !.err = Rejection(backendEnd)]

Runs(id) == kernels[id].where \in {"lite", "remote"}

\* the in-browser client starts a kernel: a new id, announced by its signal
LiteStartKernel(name) ==
  /\ kernels' = [kernels EXCEPT ![FreshKernel] = [where |-> "lite", name |-> name]]
  /\ liteKernelIds' = OnLiteAdd(FreshKernel)
\* the in-browser client shuts a kernel down: gone, announced by its signal
LiteStopKernel(id) ==
  /\ kernels' = [kernels EXCEPT ![id] = IF @.where = "lite" THEN Gone(@) ELSE @]
  /\ liteKernelIds' = IF kernels[id].where = "lite" THEN OnLiteRemove(id) ELSE liteKernelIds
\* the server shuts a kernel down if it runs it and answers, else it reports an error
RemoteStopKernel(id, ok) ==
  kernels' = [kernels EXCEPT ![id] = IF @.where = "remote" /\ ok THEN Gone(@) ELSE @]
\* the server starts a kernel if it answers and knows the name
RemoteStartKernel(name, ok) ==
  kernels' = IF ok /\ ServedName(name) \in ServerNames
             THEN [kernels EXCEPT ![FreshKernel] = [where |-> "remote", name |-> ServedName(name)]]
             ELSE kernels

\* the two kernel managers' lists go through the updates, the hybrid kernel
\* manager forwarding each change
KernelLists(updates) ==
  /\ liteKRun' = After("lite", updates, liteKRun)
  /\ remKRun' = After("remote", updates, remKRun)
  /\ outward' = [outward EXCEPT !.km = Signals(@, updates, remKRun, liteKRun)]

\* the same for the two session managers and the hybrid session manager
SessionLists(updates) ==
  /\ liteSRun' = After("lite", updates, liteSRun)
  /\ remSRun' = After("remote", updates, remSRun)
  /\ outward' = [outward EXCEPT !.sm = Signals(@, updates, remSRun, liteSRun)]

\* kernelspec.ts 422-434: HybridKernelManager.startNew
KM_startNew(name) ==
  /\ FreeKernels # {}
  /\ LET isLite == HasLiteSpec(name)
         call == Call("KM", "startNew", 0, name, FALSE, Delegate(isLite))
     IN  IF isLite
         THEN /\ LiteStartKernel(name)
              /\ last' = Ended(call, FALSE, LiteEnds("startNew", 0), "none")
         ELSE /\ \E ok \in BOOLEAN :
                   /\ RemoteStartKernel(name, ok)
                   /\ last' = Ended(call, FALSE, "none", RemoteEnds("startNew", 0, name, ok))
              /\ UNCHANGED liteKernelIds
  /\ UNCHANGED <<hsmBuilt, liteKRun, sessions, liteSRun>>
  /\ UNCHANGED <<refreshVars, appVars, manageVars, listVars>>

\* callers hold ids and models a backend has handed out: of a kernel that
\* runs or of one that has been shut down since
Issued(id) == kernels[id].where # "none"
IssuedSession(id) == sessions[id].where # "none"

\* kernelspec.ts 379-387: HybridKernelManager.connectTo, given the model of
\* kernel id as its backend reported it
KM_connectTo(id) ==
  /\ Issued(id)
  /\ last' = Call("KM", "connectTo", id, kernels[id].name, id \in liteKRun,
                  Delegate(IsLiteKernelKM(id, kernels[id].name)))
  /\ UNCHANGED <<hsmBuilt, kernels, liteKRun, liteKernelIds, sessions, liteSRun>>
  /\ UNCHANGED <<refreshVars, appVars, manageVars, listVars>>

\* kernelspec.ts 439-444: HybridKernelManager.shutdown; the manager it picks
\* asks its client to shut the kernel down and refreshes its running list.
\* A kernel that belongs to a session is shut down with its session
KM_shutdown(id) ==
  /\ Issued(id)
  /\ id \notin SessionKernels
  /\ LET isLite == IsLiteKernelKM(id, "")
         call == Call("KM", "shutdown", id, "", id \in liteKRun, Delegate(isLite))
     IN  IF isLite
         THEN /\ LiteStopKernel(id)
              /\ KernelLists(<<Update("lite", LiteKernels \ {id})>>)
              /\ last' = Ended(call, Runs(id), LiteEnds("shutdown", id), "none")
         ELSE /\ \E ok \in BOOLEAN :
                   /\ RemoteStopKernel(id, ok)
                   /\ IF ok /\ kernels[id].where = "remote"
                      THEN KernelLists(<<Update("remote", RemoteKernels \ {id})>>)
                      ELSE KernelLists(<<>>)
                   /\ last' = Ended(call, Runs(id), "none",
                                    RemoteEnds("shutdown", id, "", ok))
              /\ UNCHANGED liteKernelIds
  /\ UNCHANGED <<hsmBuilt, sessions, liteSRun, remSRun>>
  /\ UNCHANGED <<refreshVars, appVars, manageVars>>

\* the in-browser kernel manager's running list catches up with its client
\* (its poll, or the refresh that follows a start)
LiteKRefresh ==
  /\ liteKRun # LiteKernels
  /\ KernelLists(<<Update("lite", LiteKernels)>>)
  /\ UNCHANGED <<hsmBuilt, kernels, liteKernelIds, sessions, liteSRun, last, remSRun>>
  /\ UNCHANGED <<refreshVars, appVars, manageVars>>

\* another client of the same server starts a kernel there
ExtRemoteStart(name) ==
  /\ FreeKernels # {}
  /\ name \in ServerNames
  /\ RemoteStartKernel(name, TRUE)
  /\ UNCHANGED <<hsmBuilt, liteKRun, liteKernelIds, sessions, liteSRun, last>>
  /\ UNCHANGED <<refreshVars, appVars, manageVars, listVars>>

\* part_003 265-303 and kernelclient.ts 22-35: the session manager is built
\* around the in-browser client, with a HybridKernelClient that starts tracking
HSM_construct ==
  /\ ~hsmBuilt
  /\ hsmBuilt' = TRUE
  /\ liteKernelIds' = {}
  /\ liteSRun' = {}
  /\ UNCHANGED <<kernels, liteKRun, sessions, last>>
  /\ UNCHANGED <<refreshVars, appVars, manageVars, listVars>>

\* kernelclient.ts 56-64: HybridKernelClient.startNew
KC_startNew(name) ==
  /\ hsmBuilt
  /\ FreeKernels # {}
  /\ LET isLite == HasLiteSpec(name)
         call == Call("KC", "startNew", 0, name, FALSE, Delegate(isLite))
     IN  IF isLite
         THEN /\ LiteStartKernel(name)
              /\ last' = Ended(call, FALSE, LiteEnds("startNew", 0), "none")
         ELSE /\ \E ok \in BOOLEAN :
                   /\ RemoteStartKernel(name, ok)
                   /\ last' = Ended(call, FALSE, "none", RemoteEnds("startNew", 0, name, ok))
              /\ UNCHANGED liteKernelIds
  /\ UNCHANGED <<hsmBuilt, liteKRun, sessions, liteSRun>>
  /\ UNCHANGED <<refreshVars, appVars, manageVars, listVars>>

\* kernelclient.ts 69-74 and 79-84: HybridKernelClient.restart and interrupt;
\* a restarted or interrupted kernel keeps its id
KC_signal(op, id) ==
  /\ hsmBuilt
  /\ Issued(id)
  /\ op \in {"restart", "interrupt"}
  /\ last' = Ended(Call("KC", op, id, "", id \in LiteKernels, Delegate(IsLiteKernelKC(id))),
                   Runs(id), LiteEnds(op, id), RemoteEnds(op, id, "", TRUE))
  /\ UNCHANGED <<hsmBuilt, kernels, liteKRun, liteKernelIds, sessions, liteSRun>>
  /\ UNCHANGED <<refreshVars, appVars, manageVars, listVars>>

\* kernelclient.ts 103-108: HybridKernelClient.shutdown
KC_shutdown(id) ==
  /\ hsmBuilt
  /\ Issued(id)
  /\ id \notin SessionKernels
  /\ LET isLite == IsLiteKernelKC(id)
         call == Call("KC", "shutdown", id, "", id \in LiteKernels, Delegate(isLite))
     IN  IF isLite
         THEN /\ LiteStopKernel(id)
              /\ last' = Ended(call, Runs(id), LiteEnds("shutdown", id), "none")
         ELSE /\ \E ok \in BOOLEAN :
                   /\ RemoteStopKernel(id, ok)
                   /\ last' = Ended(call, Runs(id), "none",
                                    RemoteEnds("shutdown", id, "", ok))
              /\ UNCHANGED liteKernelIds
  /\ UNCHANGED <<hsmBuilt, liteKRun, sessions, liteSRun>>
  /\ UNCHANGED <<refreshVars, appVars, manageVars, listVars>>

\* part_003 387-399: HybridSessionManager.startNew. The in-browser session
\* manager has its LiteSessionClient start the session's kernel through the
\* HybridKernelClient, then refreshes its running list; the server starts a
\* session together with its kernel
SM_startNew(name) ==
  /\ hsmBuilt
  /\ FreeSessions # {}
  /\ FreeKernels # {}
  /\ LET isLite == HasLiteSpec(name)
         nested == Delegate(HasLiteSpec(name))
     IN  IF isLite
         THEN /\ IF nested.lite = 1
                 THEN LiteStartKernel(name)
                 ELSE RemoteStartKernel(name, TRUE) /\ UNCHANGED liteKernelIds
              /\ sessions' = [sessions EXCEPT ![FreshSession] =
                                [where |-> "lite", kernel |-> FreshKernel]]
              /\ SessionLists(<<Update("lite", LiteSessions \cup {FreshSession})>>)
              /\ last' = [Call("SM", "startNew", 0, name, FALSE, Delegate(isLite))
                            EXCEPT !.nop = "startNew", !.nlite = nested.lite,
                                   !.nremote = nested.remote]
         ELSE /\ \E ok \in BOOLEAN :
                   /\ RemoteStartKernel(name, ok)
                   /\ IF ok /\ ServedName(name) \in ServerNames
                      THEN /\ sessions' = [sessions EXCEPT ![FreshSession] =
                                            [where |-> "remote", kernel |-> FreshKernel]]
                           /\ SessionLists(<<Update("remote",
                                                    RemoteSessions \cup {FreshSession})>>)
                      ELSE /\ UNCHANGED sessions
                           /\ SessionLists(<<>>)
              /\ UNCHANGED liteKernelIds
              /\ last' = Call("SM", "startNew", 0, name, FALSE, Delegate(isLite))
  /\ UNCHANGED <<hsmBuilt, liteKRun, remKRun>>
  /\ UNCHANGED <<refreshVars, appVars, manageVars>>

\* part_003 348-359: HybridSessionManager.connectTo
SM_connectTo(id) ==
  /\ hsmBuilt
  /\ IssuedSession(id)
  /\ last' = Call("SM", "connectTo", id, "", id \in liteSRun, Delegate(IsLiteSession(id)))
  /\ UNCHANGED <<hsmBuilt, kernels, liteKRun, liteKernelIds, sessions, liteSRun>>
  /\ UNCHANGED <<refreshVars, appVars, manageVars, listVars>>

\* part_003 404-409: HybridSessionManager.shutdown. The in-browser session
\* manager has its LiteSessionClient shut the session's kernel down through
\* the HybridKernelClient, then refreshes its running list; the server ends a
\* session together with its kernel
SM_shutdown(id) ==
  /\ hsmBuilt
  /\ IssuedSession(id)
  /\ LET isLite == IsLiteSession(id)
         k == sessions[id].kernel
         nested == Delegate(IsLiteKernelKC(k))
     IN  IF isLite
         THEN /\ IF nested.lite = 1
                 THEN LiteStopKernel(k)
                 ELSE RemoteStopKernel(k, TRUE) /\ UNCHANGED liteKernelIds
              /\ sessions' = [sessions EXCEPT ![id] = GoneSession]
              /\ SessionLists(<<Update("lite", LiteSessions \ {id})>>)
              /\ last' = [Call("SM", "shutdown", id, "", id \in liteSRun, Delegate(isLite))
                            EXCEPT !.nop = "shutdown", !.nlite = nested.lite,
                                   !.nremote = nested.remote]
         ELSE /\ \E ok \in BOOLEAN :
                   IF sessions[id].where = "remote" /\ ok
                   THEN /\ RemoteStopKernel(k, TRUE)
                        /\ sessions' = [sessions EXCEPT ![id] = GoneSession]
                        /\ SessionLists(<<Update("remote", RemoteSessions \ {id})>>)
                   ELSE /\ UNCHANGED <<kernels, sessions>>
                        /\ SessionLists(<<>>)
              /\ UNCHANGED liteKernelIds
              /\ last' = Call("SM", "shutdown", id, "", id \in liteSRun, Delegate(isLite))
  /\ UNCHANGED <<hsmBuilt, liteKRun, remKRun>>
  /\ UNCHANGED <<refreshVars, appVars, manageVars>>

\* a call that addresses both backends: what each side did and what came back
\* the four backend managers the two hybrid managers are built on
Managers == {"_kernelManager", "_liteKernelManager", "_sessionManager", "_liteSessionManager"}
\* no call on the promoter yet
NoPromotion ==
  [op |-> "none", session |-> 0, answer |-> FALSE, local |-> FALSE,
   outcome |-> "none", replaced |-> "none", emitted |-> FALSE]
NoPromises == [km |-> "none", sm |-> "none"]

NoBulk == [router |-> "none", op |-> "none", liteOk |-> TRUE, remoteOk |-> TRUE,
           liteList |-> <<>>, remoteList |-> <<>>, started |-> {},
           id |-> 0, inLite |-> FALSE, inRemote |-> FALSE, probes |-> <<>>,
           url |-> "", wsUrl |-> "", token |-> "",
           outcome |-> "none", result |-> <<>>]

MaxSaves == 2   \* executions of the configure command explored in one behaviour
Executions == 1..MaxSaves

\* the configure command not run yet (config.ts 95), no session with a path,
\* no promoter built
NoUpdate == [baseUrl |-> "", token |-> "", emits |-> 0]
NoProbe == [baseUrl |-> "", token |-> "", ok |-> FALSE, made |-> FALSE]
NoRun == [pc |-> "idle", baseUrl |-> "", token |-> ""]
NoConn ==
  [isConnected |-> FALSE, update |-> NoUpdate, setEmits |-> 0,
   runs |-> [e \in Executions |-> NoRun], lastProbe |-> NoProbe]
NoStop == [path |-> "", outcome |-> "none", found |-> 0]
NoPaths == [at |-> <<>>, stop |-> NoStop]
\* promoterplugin.ts 15-18: DEFAULT_SETTINGS
DefaultPatterns == {"ModuleNotFoundError", "MemoryError"}
DefaultSettings == [autoPromote |-> TRUE, errorPatterns |-> DefaultPatterns]
NoPrompt == [made |-> FALSE, traceback |-> "", lite |-> FALSE, loaded |-> FALSE,
             raised |-> FALSE]
NoPrefs ==
  [built |-> FALSE, user |-> DefaultSettings, plugin |-> DefaultSettings, loads |-> 0,
   promoter |-> DefaultSettings, wired |-> FALSE, prompt |-> NoPrompt]
InitApp ==
  /\ conn = NoConn
  /\ paths = NoPaths
  /\ prefs = NoPrefs

InitManagers ==
  /\ bulk = NoBulk
  /\ remKRun = {}
  /\ remSRun = {}
  /\ outward = [km |-> NoSignal, sm |-> NoSignal]
  /\ isReady = [m \in Managers |-> FALSE]
  /\ readyPromise = NoPromises
  /\ promo = NoPromotion
  /\ InitApp

\* the routers as index.ts builds them: the kernel manager first (250-268),
\* the session manager, which needs it, later (306-326)
InitRouters ==
  /\ InitManagers
  /\ hsmBuilt = FALSE
  /\ kernels = [k \in KernelIds |-> NoKernel]
  /\ liteKRun = {}
  /\ liteKernelIds = {}
  /\ sessions = [x \in SessionIds |-> NoSession]
  /\ liteSRun = {}
  /\ last = NoCall

\* lines 46-69 and 258: _ready pending, _isReady false, the poll built with
\* auto: false and so not started
ConstructedLife ==
  [ready |-> "pending", isReady |-> FALSE, poll |-> "constructed",
   disposed |-> FALSE, disposals |-> 0, ticks |-> 0]

\* lines 49-54 and 67-69 once the constructor's refreshSpecs() has settled
SettledLife ==
  [ConstructedLife EXCEPT !.ready = "resolved", !.isReady = TRUE, !.poll = "started"]

\* the state the constructor leaves (lines 26-70): its own refreshSpecs() in flight
InitRefresh ==
  /\ mode \in {"hybrid", "remote"}
  /\ cfgBaseUrl \in BaseUrls
  /\ cfgToken \in Tokens
  /\ liteNames \in SUBSET LiteNames
  /\ specs = Null
  /\ emitCount = 0
  /\ nStarted = 1
  /\ calls = [c \in Slots |-> IF c = 1 THEN BeginRefresh ELSE IdleCall]
  /\ lastDone = NoRefresh
  /\ life = ConstructedLife
  /\ InitRouters

NextRefresh ==
  \/ \E c \in Slots : RefreshStart(c)
  \/ \E c \in Slots : RefreshServerDone(c)
  \/ \E c \in Slots : RefreshLiteDone(c)
  \/ \E n \in LiteNames, c \in Slots : RegisterLiteSpec(n, c)

SpecRefresh == InitRefresh /\ [][NextRefresh]_vars

----------------------------------------------------------------------------
(* The routers at work, once the spec manager's first refresh has settled *)

StartNames == KernelNames \cup {""}

\* the spec manager after its constructor's refreshSpecs() has settled with
\* the local server's answer, no or all in-browser kernels being registered
InitRoute ==
  /\ mode = "hybrid"
  /\ cfgBaseUrl = ""
  /\ cfgToken = ""
  /\ liteNames \in {{}, LiteNames}
  /\ LET r == SettleRefresh(FlatPayload, FALSE, TRUE, Null, 0)
     IN  /\ specs = r.specs
         /\ emitCount = r.emitCount
         /\ lastDone = r.lastDone
  /\ nStarted = 1
  /\ calls = [c \in Slots |-> IdleCall]
  /\ life = SettledLife
  /\ InitRouters

NextRoute ==
  \/ \E n \in StartNames : KM_startNew(n)
  \/ \E id \in KernelIds : KM_connectTo(id)
  \/ \E id \in KernelIds : KM_shutdown(id)
  \/ LiteKRefresh
  \/ \E n \in ServerNames : ExtRemoteStart(n)
  \/ HSM_construct
  \/ \E n \in StartNames : KC_startNew(n)
  \/ \E op \in {"restart", "interrupt"}, id \in KernelIds : KC_signal(op, id)
  \/ \E id \in KernelIds : KC_shutdown(id)
  \/ \E n \in StartNames : SM_startNew(n)
  \/ \E id \in SessionIds : SM_connectTo(id)
  \/ \E id \in SessionIds : SM_shutdown(id)

SpecRoute == InitRoute /\ [][NextRoute]_vars

----------------------------------------------------------------------------
(* The calls that address both backends, on a population already running *)

Bulk(router, op, liteOk, remoteOk, outcome, result) ==
  [NoBulk EXCEPT !.router = router, !.op = op, !.liteOk = liteOk, !.remoteOk = remoteOk,
                 !.outcome = outcome, !.result = result]

\* a listRunning whose remote enumeration is not guarded
UnguardedList(liteOk, remoteOk, liteKernels, remoteKernels) ==
  IF liteOk /\ remoteOk THEN [outcome |-> "resolved", result |-> liteKernels \o remoteKernels]
  ELSE [outcome |-> "rejected", result |-> <<>>]

\* kernelclient.ts 89-98: the value of listRunning
ListRunningResult(liteOk, remoteOk, liteKernels, remoteKernels) ==
  IF ~liteOk THEN [outcome |-> "rejected", result |-> <<>>]
  ELSE IF remoteOk THEN [outcome |-> "resolved", result |-> liteKernels \o remoteKernels]
  ELSE [outcome |-> "resolved", result |-> liteKernels]

\* kernelclient.ts 89-98: HybridKernelClient.listRunning
KC_listRunning ==
  /\ hsmBuilt
  /\ \E liteOk \in BOOLEAN, remoteOk \in BOOLEAN :
       LET liteKernels == Listed(LiteKernels)
           remoteKernels == Listed(RemoteKernels)
           r == ListRunningResult(liteOk, remoteOk, liteKernels, remoteKernels)
       IN  bulk' = [Bulk("KC", "listRunning", liteOk, remoteOk, r.outcome, r.result)
                      EXCEPT !.liteList = liteKernels, !.remoteList = remoteKernels,
                             !.url = UrlJoin(SettingsBaseUrl, "api/kernels"),
                             !.wsUrl = SettingsWsUrl,
                             !.token = SettingsToken]
  /\ UNCHANGED <<refreshVars, appVars, routeVars, listVars, isReady, readyPromise, promo>>

\* the kernels ks shut down, together with the sessions that ran on them
KernelsWithout(ks) == [k \in KernelIds |-> IF k \in ks THEN Gone(kernels[k]) ELSE kernels[k]]
SessionsWithout(ks) ==
  [x \in SessionIds |->
     IF sessions[x].where \in {"lite", "remote"} /\ sessions[x].kernel \in ks
     THEN GoneSession ELSE sessions[x]]

\* kernelspec.ts 450-453, part_003 415-418: await Promise.all([remote, lite])
AwaitAll(liteOk, remoteOk) == IF liteOk /\ remoteOk THEN "resolved" ELSE "rejected"

\* kernelclient.ts 114-124: await lite; try { remote } catch {}
AwaitLiteTryRemote(liteOk, remoteOk) == IF liteOk THEN "resolved" ELSE "rejected"

\* the ways two chains of steps that run side by side may interleave
RECURSIVE Merges(_, _)
Merges(a, b) ==
  IF a = <<>> THEN {b}
  ELSE IF b = <<>> THEN {a}
  ELSE {<<Head(a)>> \o m : m \in Merges(Tail(a), b)}
       \cup {<<Head(b)>> \o m : m \in Merges(a, Tail(b))}

\* a backend manager's shutdownAll refreshes its list, shuts everything on it
\* down and refreshes again; with its server out of reach the first refresh fails
ShutdownAllUpdates(side, ok, items) ==
  IF ok THEN <<Update(side, items), Update(side, {})>> ELSE <<>>

\* the remote managers poll their server
RemoteKRefresh ==
  /\ remKRun # RemoteKernels
  /\ KernelLists(<<Update("remote", RemoteKernels)>>)
  /\ UNCHANGED <<remSRun, manageVars>>
  /\ UNCHANGED <<refreshVars, appVars, hsmBuilt, kernels, liteKernelIds, sessions, liteSRun, last>>

RemoteSRefresh ==
  /\ remSRun # RemoteSessions
  /\ SessionLists(<<Update("remote", RemoteSessions)>>)
  /\ UNCHANGED <<remKRun, manageVars>>
  /\ UNCHANGED <<refreshVars, appVars, hsmBuilt, kernels, liteKernelIds, sessions, liteKRun, last>>

\* the in-browser session manager polls its client
LiteSRefresh ==
  /\ liteSRun # LiteSessions
  /\ SessionLists(<<Update("lite", LiteSessions)>>)
  /\ UNCHANGED <<remKRun, manageVars>>
  /\ UNCHANGED <<refreshVars, appVars, hsmBuilt, kernels, liteKernelIds, sessions, liteKRun, last>>

\* kernelspec.ts 449-454: HybridKernelManager.shutdownAll, both managers'
\* shutdownAll side by side
KM_shutdownAll ==
  /\ \E remoteOk \in BOOLEAN :
       LET stopped == LiteKernels \cup (IF remoteOk THEN RemoteKernels ELSE {})
       IN  /\ kernels' = KernelsWithout(stopped)
           /\ sessions' = SessionsWithout(stopped)
           /\ \E updates \in Merges(ShutdownAllUpdates("remote", remoteOk, RemoteKernels),
                                     ShutdownAllUpdates("lite", TRUE, LiteKernels)) :
                KernelLists(updates)
           /\ bulk' = Bulk("KM", "shutdownAll", TRUE, remoteOk, AwaitAll(TRUE, remoteOk), <<>>)
  /\ liteKernelIds' = {}
  /\ UNCHANGED <<hsmBuilt, liteSRun, remSRun, last>>
  /\ UNCHANGED <<refreshVars, appVars, isReady, readyPromise, promo>>

\* part_003 414-419: HybridSessionManager.shutdownAll. Each manager shuts
\* every session on its refreshed list down, the kernel with the session
SM_shutdownAll ==
  /\ hsmBuilt
  /\ \E remoteOk \in BOOLEAN :
       LET ended == LiteSessions \cup (IF remoteOk THEN RemoteSessions ELSE {})
           stopped == {sessions[x].kernel : x \in ended}
       IN  /\ kernels' = KernelsWithout(stopped)
           /\ sessions' = SessionsWithout(stopped)
           /\ liteKernelIds' = liteKernelIds \ stopped
           /\ \E updates \in Merges(ShutdownAllUpdates("remote", remoteOk, RemoteSessions),
                                     ShutdownAllUpdates("lite", TRUE, LiteSessions)) :
                SessionLists(updates)
           /\ bulk' = Bulk("SM", "shutdownAll", TRUE, remoteOk, AwaitAll(TRUE, remoteOk), <<>>)
  /\ UNCHANGED <<hsmBuilt, liteKRun, remKRun, last>>
  /\ UNCHANGED <<refreshVars, appVars, isReady, readyPromise, promo>>

\* kernelclient.ts 113-125: HybridKernelClient.shutdownAll
KC_shutdownAll ==
  /\ hsmBuilt
  /\ \E remoteOk \in BOOLEAN :
       LET stopped == LiteKernels \cup (IF remoteOk THEN RemoteKernels ELSE {})
       IN  /\ kernels' = KernelsWithout(stopped)
           /\ sessions' = SessionsWithout(stopped)
           /\ bulk' = Bulk("KC", "shutdownAll", TRUE, remoteOk,
                           AwaitLiteTryRemote(TRUE, remoteOk), <<>>)
  /\ liteKernelIds' = {}
  /\ UNCHANGED <<hsmBuilt, liteKRun, liteSRun, last>>
  /\ UNCHANGED <<refreshVars, appVars, listVars, isReady, readyPromise, promo>>

\* two refreshes awaited one after the other: remote, then lite
StartedInTurn(remoteOk) == IF remoteOk THEN {"remote", "lite"} ELSE {"remote"}

\* kernelspec.ts 413-416, part_003 378-381: both calls are made before
\* Promise.all awaits either
Started(remoteOk) == {"remote", "lite"}

\* what a refreshRunning that was started and came back brings to its manager
RefreshUpdates(side, started, ok, items) ==
  IF side \in started /\ ok THEN <<Update(side, items)>> ELSE <<>>

\* kernelspec.ts 412-417: HybridKernelManager.refreshRunning
KM_refreshRunning ==
  /\ \E liteOk \in BOOLEAN, remoteOk \in BOOLEAN :
       LET started == Started(remoteOk)
       IN  /\ \E updates \in Merges(RefreshUpdates("remote", started, remoteOk, RemoteKernels),
                                     RefreshUpdates("lite", started, liteOk, LiteKernels)) :
                KernelLists(updates)
           /\ bulk' = [Bulk("KM", "refreshRunning", liteOk, remoteOk,
                            AwaitAll(liteOk, remoteOk), <<>>) EXCEPT !.started = started]
  /\ UNCHANGED <<hsmBuilt, kernels, liteKernelIds, sessions, liteSRun, remSRun, last>>
  /\ UNCHANGED <<refreshVars, appVars, isReady, readyPromise, promo>>

\* part_003 377-382: HybridSessionManager.refreshRunning
SM_refreshRunning ==
  /\ hsmBuilt
  /\ \E liteOk \in BOOLEAN, remoteOk \in BOOLEAN :
       LET started == Started(remoteOk)
       IN  /\ \E updates \in Merges(RefreshUpdates("remote", started, remoteOk, RemoteSessions),
                                     RefreshUpdates("lite", started, liteOk, LiteSessions)) :
                SessionLists(updates)
           /\ bulk' = [Bulk("SM", "refreshRunning", liteOk, remoteOk,
                            AwaitAll(liteOk, remoteOk), <<>>) EXCEPT !.started = started]
  /\ UNCHANGED <<hsmBuilt, kernels, liteKernelIds, sessions, liteKRun, remKRun, last>>
  /\ UNCHANGED <<refreshVars, appVars, isReady, readyPromise, promo>>

\* kernels and sessions the two backends may be running, each session with a
\* kernel of its own backend
Populations ==
  {p \in [kernels : [KernelIds -> {NoKernel, [where |-> "lite", name |-> "pyodide"],
                                   [where |-> "remote", name |-> "python3"]}],
          sessions : [SessionIds -> {NoSession} \cup
                        [where : {"lite", "remote"}, kernel : KernelIds]]] :
     /\ \A x \in SessionIds :
          p.sessions[x].where # "none" =>
            p.kernels[p.sessions[x].kernel].where = p.sessions[x].where
     /\ \A x, y \in SessionIds :
          (x # y /\ p.sessions[x].where # "none" /\ p.sessions[y].where # "none")
            => p.sessions[x].kernel # p.sessions[y].kernel}

\* all routers built, the first spec refresh settled, a population started
\* through them, the managers' running lists up to date
InitManage ==
  /\ mode = "hybrid"
  /\ cfgBaseUrl = ""
  /\ cfgToken = ""
  /\ liteNames = LiteNames
  /\ LET r == SettleRefresh(FlatPayload, FALSE, TRUE, Null, 0)
     IN  /\ specs = r.specs
         /\ emitCount = r.emitCount
         /\ lastDone = r.lastDone
  /\ nStarted = 1
  /\ calls = [c \in Slots |-> IdleCall]
  /\ life = SettledLife
  /\ hsmBuilt = TRUE
  /\ \E p \in Populations : kernels = p.kernels /\ sessions = p.sessions
  /\ liteKRun = LiteKernels
  /\ liteKernelIds = LiteKernels
  /\ liteSRun = LiteSessions
  /\ last = NoCall
  /\ bulk = NoBulk
  /\ remKRun = RemoteKernels
  /\ remSRun = RemoteSessions
  /\ outward = [km |-> NoSignal, sm |-> NoSignal]
  /\ isReady = [m \in Managers |-> TRUE]
  /\ readyPromise = NoPromises
  /\ promo = NoPromotion
  /\ InitApp

NextManage ==
  \/ \E n \in ServerNames : ExtRemoteStart(n)
  \/ LiteKRefresh
  \/ RemoteKRefresh
  \/ LiteSRefresh
  \/ RemoteSRefresh
  \/ KC_listRunning
  \/ KM_shutdownAll
  \/ SM_shutdownAll
  \/ KC_shutdownAll

SpecManage == InitManage /\ [][NextManage]_vars

----------------------------------------------------------------------------
(* Refreshing and looking up, on a population already running *)

\* how a backend manager's refresh may end: its list brought up to date, its
\* list left as it was, or its promise rejected
RefreshEnds == {"fresh", "stale", "rejected"}

\* a backend manager's findById: the cached model if it has one, else a
\* refresh and whatever the list holds afterwards
Probe(side, id, list, items, end) ==
  IF id \in list THEN [hit |-> TRUE, rejected |-> FALSE, updates |-> <<>>]
  ELSE IF end = "rejected" THEN [hit |-> FALSE, rejected |-> TRUE, updates |-> <<>>]
  ELSE IF end = "stale" THEN [hit |-> FALSE, rejected |-> FALSE, updates |-> <<>>]
  ELSE [hit |-> id \in items, rejected |-> FALSE, updates |-> <<Update(side, items)>>]

\* kernelspec.ts 459-465, part_003 434-440: the remote manager is asked, the
\* in-browser one only if the remote one resolves without a model
FindById(id, remote, lite) ==
  IF remote.rejected
  THEN [probes |-> <<"remote">>, outcome |-> "rejected", result |-> <<>>,
        updates |-> remote.updates]
  ELSE IF remote.hit
  THEN [probes |-> <<"remote">>, outcome |-> "resolved", result |-> <<id>>,
        updates |-> remote.updates]
  ELSE [probes |-> <<"remote", "lite">>,
        outcome |-> IF lite.rejected THEN "rejected" ELSE "resolved",
        result |-> IF lite.hit THEN <<id>> ELSE <<>>,
        updates |-> remote.updates \o lite.updates]

\* kernelspec.ts 459-465: HybridKernelManager.findById
KM_findById(id) ==
  /\ \E end \in RefreshEnds :
       LET r == FindById(id, Probe("remote", id, remKRun, RemoteKernels, end),
                         Probe("lite", id, liteKRun, LiteKernels, "fresh"))
       IN  /\ KernelLists(r.updates)
           /\ bulk' = [Bulk("KM", "findById", TRUE, end # "rejected", r.outcome, r.result)
                         EXCEPT !.id = id, !.probes = r.probes,
                                !.inLite = id \in LiteKernels,
                                !.inRemote = id \in RemoteKernels]
  /\ UNCHANGED <<hsmBuilt, kernels, liteKernelIds, sessions, liteSRun, remSRun, last>>
  /\ UNCHANGED <<refreshVars, appVars, isReady, readyPromise, promo>>

\* part_003 434-440: HybridSessionManager.findById
SM_findById(id) ==
  /\ hsmBuilt
  /\ \E end \in RefreshEnds :
       LET r == FindById(id, Probe("remote", id, remSRun, RemoteSessions, end),
                         Probe("lite", id, liteSRun, LiteSessions, "fresh"))
       IN  /\ SessionLists(r.updates)
           /\ bulk' = [Bulk("SM", "findById", TRUE, end # "rejected", r.outcome, r.result)
                         EXCEPT !.id = id, !.probes = r.probes,
                                !.inLite = id \in LiteSessions,
                                !.inRemote = id \in RemoteSessions]
  /\ UNCHANGED <<hsmBuilt, kernels, liteKernelIds, sessions, liteKRun, remKRun, last>>
  /\ UNCHANGED <<refreshVars, appVars, isReady, readyPromise, promo>>

NextLookup ==
  \/ \E n \in ServerNames : ExtRemoteStart(n)
  \/ LiteKRefresh
  \/ RemoteKRefresh
  \/ LiteSRefresh
  \/ RemoteSRefresh
  \/ KC_shutdownAll
  \/ KM_refreshRunning
  \/ SM_refreshRunning
  \/ \E id \in KernelIds : KM_findById(id)
  \/ \E id \in SessionIds : SM_findById(id)

SpecLookup == InitManage /\ [][NextLookup]_vars

----------------------------------------------------------------------------
(* The managers getting ready: each backend manager is ready once its first
   poll has brought its list *)

\* a manager that counts as ready as soon as one of its backends is
IsReadyEither(liteReady, remoteReady) == liteReady \/ remoteReady

\* kernelspec.ts 355-357, part_003 317-319: get isReady
IsReady(liteReady, remoteReady) == liteReady /\ remoteReady
KM_isReady == IsReady(isReady["_liteKernelManager"], isReady["_kernelManager"])
SM_isReady == IsReady(isReady["_liteSessionManager"], isReady["_sessionManager"])

\* kernelspec.ts 362-367, part_003 324-329: Promise.all([remote.ready, lite.ready])
ReadyAll(remoteReady, liteReady) ==
  IF remoteReady /\ liteReady THEN "resolved" ELSE "pending"

\* the promises handed out so far, with the backend managers' readiness as given
Promises(ready) ==
  [km |-> IF readyPromise.km = "none" THEN "none"
          ELSE ReadyAll(ready["_kernelManager"], ready["_liteKernelManager"]),
   sm |-> IF readyPromise.sm = "none" THEN "none"
          ELSE ReadyAll(ready["_sessionManager"], ready["_liteSessionManager"])]

\* kernelspec.ts 362-367: a caller takes HybridKernelManager.ready
KM_ready ==
  /\ readyPromise.km = "none"
  /\ readyPromise' = [readyPromise EXCEPT !.km =
                        ReadyAll(isReady["_kernelManager"], isReady["_liteKernelManager"])]
  /\ UNCHANGED <<refreshVars, appVars, routeVars, listVars, bulk, isReady, promo>>

\* part_003 324-329: a caller takes HybridSessionManager.ready
SM_ready ==
  /\ hsmBuilt
  /\ readyPromise.sm = "none"
  /\ readyPromise' = [readyPromise EXCEPT !.sm =
                        ReadyAll(isReady["_sessionManager"], isReady["_liteSessionManager"])]
  /\ UNCHANGED <<refreshVars, appVars, routeVars, listVars, bulk, isReady, promo>>

\* a backend manager's first poll comes back: its list is there, it is ready
BackendReady(m) ==
  /\ ~isReady[m]
  /\ m \in {"_sessionManager", "_liteSessionManager"} => hsmBuilt
  /\ isReady' = [isReady EXCEPT ![m] = TRUE]
  /\ readyPromise' = Promises(isReady')
  /\ CASE m = "_kernelManager" ->
            KernelLists(<<Update("remote", RemoteKernels)>>) /\ UNCHANGED <<liteSRun, remSRun>>
       [] m = "_liteKernelManager" ->
            KernelLists(<<Update("lite", LiteKernels)>>) /\ UNCHANGED <<liteSRun, remSRun>>
       [] m = "_sessionManager" ->
            SessionLists(<<Update("remote", RemoteSessions)>>) /\ UNCHANGED <<liteKRun, remKRun>>
       [] m = "_liteSessionManager" ->
            SessionLists(<<Update("lite", LiteSessions)>>) /\ UNCHANGED <<liteKRun, remKRun>>
  /\ UNCHANGED <<refreshVars, appVars, hsmBuilt, kernels, liteKernelIds, sessions, last, bulk, promo>>

\* the page has just loaded: nothing runs in the browser yet, the server may
\* still run what earlier pages started
InitReady ==
  /\ mode = "hybrid"
  /\ cfgBaseUrl = ""
  /\ cfgToken = ""
  /\ liteNames = LiteNames
  /\ LET r == SettleRefresh(FlatPayload, FALSE, TRUE, Null, 0)
     IN  /\ specs = r.specs
         /\ emitCount = r.emitCount
         /\ lastDone = r.lastDone
  /\ nStarted = 1
  /\ calls = [c \in Slots |-> IdleCall]
  /\ life = SettledLife
  /\ InitManagers
  /\ hsmBuilt = FALSE
  /\ liteKRun = {}
  /\ liteKernelIds = {}
  /\ liteSRun = {}
  /\ last = NoCall
  /\ \E p \in Populations :
       /\ \A k \in KernelIds : p.kernels[k].where # "lite"
       /\ kernels = p.kernels /\ sessions = p.sessions

NextReady ==
  \/ \E m \in Managers : BackendReady(m)
  \/ KM_ready
  \/ SM_ready
  \/ HSM_construct
  \/ \E n \in ServerNames : ExtRemoteStart(n)

SpecReady == InitReady /\ [][NextReady]_vars

----------------------------------------------------------------------------
(* The configuration changing under managers that are already built *)

\* what a caller of update() may leave out
NotGiven == "(undefined)"

\* a `changed` emitted for every field written
EmitsPerField(wroteBaseUrl, wroteToken) ==
  (IF wroteBaseUrl THEN 1 ELSE 0) + (IF wroteToken THEN 1 ELSE 0)

\* config.ts 75-91: hasChanged, and the one emission it guards
EmitsOnce(wroteBaseUrl, wroteToken) == IF wroteBaseUrl \/ wroteToken THEN 1 ELSE 0

\* config.ts 74-92: what update({baseUrl, token}) leaves in PageConfig and
\* how often it emits `changed`
Updated(baseUrl, token) ==
  LET wroteBaseUrl == baseUrl # NotGiven /\ baseUrl # cfgBaseUrl
      wroteToken == token # NotGiven /\ token # cfgToken
  IN  [baseUrl |-> IF wroteBaseUrl THEN baseUrl ELSE cfgBaseUrl,
       token |-> IF wroteToken THEN token ELSE cfgToken,
       call |-> [baseUrl |-> baseUrl, token |-> token,
                 emits |-> EmitsOnce(wroteBaseUrl, wroteToken)]]

\* config.ts 74-92: RemoteServerConfig.update
ConfigUpdate(baseUrl, token) ==
  /\ cfgBaseUrl' = Updated(baseUrl, token).baseUrl
  /\ cfgToken' = Updated(baseUrl, token).token
  /\ conn' = [conn EXCEPT !.update = Updated(baseUrl, token).call]
  /\ UNCHANGED <<mode, liteNames, specs, emitCount, nStarted, calls, lastDone, life>>
  /\ UNCHANGED <<paths, prefs>>
  /\ UNCHANGED <<routeVars, manageVars, listVars>>

\* remote mode, every in-browser kernel registered. The calls are followed up
\* to the request they send; how they end is the matter of SpecRefresh
InitConfig ==
  /\ InitRefresh
  /\ mode = "remote"
  /\ liteNames = LiteNames

NextConfig ==
  \/ \E baseUrl \in BaseUrls \cup {NotGiven}, token \in Tokens \cup {NotGiven} :
       ConfigUpdate(baseUrl, token)
  \/ \E c \in Slots : RefreshStart(c)
  \/ HSM_construct
  \/ KC_listRunning

SpecConfig == InitConfig /\ [][NextConfig]_vars

----------------------------------------------------------------------------
(* index.ts 183-220: the configure command *)

\* the call slot a refreshSpecs() started now takes
IdleSlots == {c \in Slots : calls[c].pc = "idle"}
FreeCall == CHOOSE c \in IdleSlots : \A d \in IdleSlots : c <= d

\* config.ts 63-68: setConnected
SetConnected(connected) ==
  [isConnected |-> connected, emits |-> IF conn.isConnected # connected THEN 1 ELSE 0]

\* lines 196-219 of an execution whose dialog was accepted with the two
\* values: update, then the probe sent (204-210) or, with no baseUrl,
\* setConnected(false) (216) and refreshSpecs() started (219)
CfgSave(e, baseUrl, token) ==
  LET u == Updated(baseUrl, token)
      set == SetConnected(FALSE)
  IN  /\ conn.runs[e].pc = "idle"
      /\ cfgBaseUrl' = u.baseUrl
      /\ cfgToken' = u.token
      /\ IF baseUrl # ""
         THEN /\ conn' = [conn EXCEPT !.update = u.call,
                                      !.runs[e] = [pc |-> "probing", baseUrl |-> baseUrl,
                                                   token |-> token]]
              /\ UNCHANGED <<calls, nStarted>>
         ELSE /\ IdleSlots # {}
              /\ conn' = [conn EXCEPT !.update = u.call,
                                      !.isConnected = set.isConnected,
                                      !.setEmits = set.emits,
                                      !.runs[e] = [pc |-> "done", baseUrl |-> baseUrl,
                                                   token |-> token]]
              /\ calls' = [calls EXCEPT ![FreeCall] =
                             BeginRefreshWith(SettingsBaseUrlFor(u.baseUrl), u.token)]
              /\ nStarted' = nStarted + 1
      /\ UNCHANGED <<mode, liteNames, specs, emitCount, lastDone, life, paths, prefs>>
      /\ UNCHANGED <<routeVars, manageVars, listVars>>

\* lines 210-219: the probe of an execution is answered, refused or fails;
\* setConnected with the result, then refreshSpecs() started
CfgProbeDone(e, ok) ==
  LET set == SetConnected(ok)
      run == conn.runs[e]
  IN  /\ run.pc = "probing"
      /\ IdleSlots # {}
      /\ conn' = [conn EXCEPT !.isConnected = set.isConnected,
                              !.setEmits = set.emits,
                              !.runs[e].pc = "done",
                              !.lastProbe = [baseUrl |-> run.baseUrl, token |-> run.token,
                                             ok |-> ok, made |-> TRUE]]
      /\ calls' = [calls EXCEPT ![FreeCall] = BeginRefresh]
      /\ nStarted' = nStarted + 1
      /\ UNCHANGED <<mode, cfgBaseUrl, cfgToken, liteNames, specs, emitCount, lastDone,
                     life, paths, prefs>>
      /\ UNCHANGED <<routeVars, manageVars, listVars>>

\* remote mode, no server configured yet, the spec manager's first refresh
\* settled with the in-browser specs alone. The calls the command starts are
\* followed up to the request they send
InitConnect ==
  /\ mode = "remote"
  /\ cfgBaseUrl = ""
  /\ cfgToken = ""
  /\ liteNames = {"pyodide"}
  /\ LET r == SettleRefresh(Null, TRUE, TRUE, Null, 0)
     IN  /\ specs = r.specs
         /\ emitCount = r.emitCount
         /\ lastDone = r.lastDone
  /\ nStarted = 1
  /\ calls = [c \in Slots |-> IdleCall]
  /\ life = SettledLife
  /\ InitRouters

NextConnect ==
  \/ \E e \in Executions, baseUrl \in BaseUrls, token \in Tokens : CfgSave(e, baseUrl, token)
  \/ \E e \in Executions, ok \in BOOLEAN : CfgProbeDone(e, ok)

SpecConnect == InitConnect /\ [][NextConnect]_vars

----------------------------------------------------------------------------
(* kernelspec.ts: the spec manager's ready promise, its poll and its disposal *)

MaxDisposals == 2   \* dispose() calls explored in one behaviour

\* the ends of refreshSpecs() that reject its promise: the in-process refresh
\* rejecting at line 153, the rewriting throwing at 162
Rejects(outcome) == outcome \in {"rejected", "threw"}

\* the chain of lines 46-54 without the catch of line 48: a rejection of
\* refreshSpecs() reaches _ready and skips the reaction that sets _isReady
ReadyWithoutCatch(outcome, disposed) ==
  IF Rejects(outcome) THEN [ready |-> "rejected", isReady |-> FALSE]
  ELSE [ready |-> "resolved", isReady |-> ~disposed]

\* lines 46-54: the rejection is turned into a fulfilment at line 48, so the
\* reaction of 49-54 always runs and _ready is fulfilled with its return
ReadyAfter(outcome, disposed) == [ready |-> "resolved", isReady |-> ~disposed]

\* the constructor's refreshSpecs() has settled and the reactions of _ready
\* are queued: they run before any timer, answer or event is handled
ReactionDue == life.ready = "pending" /\ calls[1].pc = "idle"

\* lines 46-54: _ready is the promise of the constructor's refreshSpecs(),
\* with a rejection swallowed (48); its last reaction sets _isReady unless
\* the manager has been disposed
ReadySettles ==
  /\ life.ready = "pending"
  /\ calls[1].pc = "idle"
  /\ LET r == ReadyAfter(lastDone.outcome, life.disposed)
     IN  life' = [life EXCEPT !.ready = r.ready, !.isReady = r.isReady]
  /\ UNCHANGED <<mode, cfgBaseUrl, cfgToken, liteNames, specs, emitCount,
                 nStarted, calls, lastDone>>
  /\ UNCHANGED <<routeVars, manageVars, listVars, appVars>>

\* a poll that starts by itself once it is constructed
PollAutoStart == TRUE

\* lines 56-57 and 67-69: the poll is built with auto: false and is started
\* only in a reaction to _ready
PollMayStart == life.ready = "resolved"

\* lines 67-69: _pollSpecs.start(), which a disposed poll ignores
PollStart ==
  /\ PollMayStart
  /\ ~ReactionDue
  /\ life.poll = "constructed"
  /\ life' = [life EXCEPT !.poll = "started"]
  /\ UNCHANGED <<mode, cfgBaseUrl, cfgToken, liteNames, specs, emitCount,
                 nStarted, calls, lastDone>>
  /\ UNCHANGED <<routeVars, manageVars, listVars, appVars>>

\* line 58: a tick of the started poll runs its factory, refreshSpecs()
PollTick(c) ==
  /\ life.poll = "started"
  /\ calls[c].pc = "idle"
  /\ nStarted < MaxRefreshes
  /\ calls' = [calls EXCEPT ![c] = BeginRefresh]
  /\ nStarted' = nStarted + 1
  /\ life' = [life EXCEPT !.ticks = @ + 1]
  /\ UNCHANGED <<mode, cfgBaseUrl, cfgToken, liteNames, specs, emitCount, lastDone>>
  /\ UNCHANGED <<routeVars, manageVars, listVars, appVars>>

\* lines 96-99: the poll is disposed, which stops its timer, and
\* BaseManager.dispose() marks the manager disposed and clears the signal
\* connections the manager is sender or receiver of; the handler connected
\* to kernelSpecs.changed (42-44) has no receiver and stays connected
Dispose ==
  /\ life.disposals < MaxDisposals
  /\ ~ReactionDue
  /\ life' = [life EXCEPT !.poll = "disposed", !.disposed = TRUE, !.disposals = @ + 1]
  /\ UNCHANGED <<mode, cfgBaseUrl, cfgToken, liteNames, specs, emitCount,
                 nStarted, calls, lastDone>>
  /\ UNCHANGED <<routeVars, manageVars, listVars, appVars>>

\* slot 1 holds the constructor's call until _ready has reacted to its end;
\* no caller runs while the reactions of _ready are due
CallerSlots ==
  IF ReactionDue THEN {}
  ELSE IF life.ready = "pending" THEN Slots \ {1} ELSE Slots

\* the calls an answer may reach: none while the reactions of _ready are due
AnswerSlots == IF ReactionDue THEN {} ELSE Slots

\* the manager as index.ts builds it in hybrid mode (279-287), one in-browser
\* kernel being registered or none yet
InitPoll ==
  /\ InitRefresh
  /\ mode = "hybrid"
  /\ cfgBaseUrl = ""
  /\ cfgToken = ""
  /\ liteNames \in {{}, {"pyodide"}}

NextPoll ==
  \/ ReadySettles
  \/ PollStart
  \/ \E c \in CallerSlots : PollTick(c)
  \/ Dispose
  \/ \E c \in CallerSlots : RefreshStart(c)
  \/ \E c \in AnswerSlots : RefreshServerDone(c)
  \/ \E c \in AnswerSlots : RefreshLiteDone(c)
  \/ \E n \in LiteNames, c \in CallerSlots : RegisterLiteSpec(n, c)

SpecPoll == InitPoll /\ [][NextPoll]_vars

\* the reactions of a settled promise are always run
SpecPollFair == SpecPoll /\ WF_vars(ReadySettles)

\* the manager in remote mode against a configured server, its constructor's
\* refreshSpecs() in flight while the plugin (index.ts 279-287) or another
\* caller starts more
InitOverlap ==
  /\ InitRefresh
  /\ mode = "remote"
  /\ cfgBaseUrl = "https://host/prefix"
  /\ cfgToken = ""
  /\ liteNames = {"pyodide"}

NextOverlap ==
  \/ ReadySettles
  \/ \E c \in CallerSlots : RefreshStart(c)
  \/ \E c \in AnswerSlots : RefreshServerDone(c)
  \/ \E c \in AnswerSlots : RefreshLiteDone(c)

SpecOverlap == InitOverlap /\ [][NextOverlap]_vars

\* the manager in remote mode against a configured server, the configure
\* command (index.ts 183-220) calling RemoteServerConfig.update with the two
\* fields of its dialog while the constructor's refreshSpecs() is in flight
InitReconfig ==
  /\ InitRefresh
  /\ mode = "remote"
  /\ cfgBaseUrl = "https://host/prefix"
  /\ cfgToken = "a b"
  /\ liteNames = {"pyodide"}

NextReconfig ==
  \/ \E baseUrl \in BaseUrls, token \in Tokens : ConfigUpdate(baseUrl, token)
  \/ \E c \in Slots : RefreshServerDone(c)
  \/ \E c \in Slots : RefreshLiteDone(c)

SpecReconfig == InitReconfig /\ [][NextReconfig]_vars

----------------------------------------------------------------------------
(* KernelPromoter (part_002 and the head of part_003, two versions of
   kernelpromoter.ts), working on the session manager of the application *)

MaxPromotions == 1   \* sessions the promoter may start beside the population

PromoterSessionIds == 1..(MaxSessions + MaxPromotions)
NullSession == 0

\* `session.kernel?.name`: a session connection has a kernel while it runs
KernelNameOf(x) ==
  IF x # NullSession /\ sessions[x].where \in {"lite", "remote"}
  THEN kernels[sessions[x].kernel].name
  ELSE ""

\* part_003 49-59, part_002 52-62: KernelPromoter.isLiteKernel
IsLiteKernelKP(x) ==
  IF x = NullSession THEN FALSE
  ELSE LET kernelName == KernelNameOf(x)
       IN  IF kernelName = "" THEN FALSE
           ELSE Truthy(OptGet(OptGet(LiteSpecs, "kernelspecs"), kernelName))

\* the record of a call on the promoter: what isLiteKernel said of the
\* session, which backend served it, how the call ended, where the
\* replacement kernel runs if one was started, whether kernelPromoted fired
Promotion(op, x, outcome, replaced, emitted) ==
  [op |-> op, session |-> x, answer |-> IsLiteKernelKP(x),
   local |-> (x # NullSession /\ sessions[x].where = "lite"),
   outcome |-> outcome, replaced |-> replaced, emitted |-> emitted]

\* a caller asks isLiteKernel of a session connection it holds, or of null
KP_isLiteKernel(x) ==
  /\ IF x = NullSession THEN TRUE ELSE IssuedSession(x)
  /\ promo' = Promotion("isLiteKernel", x, "answered", "none", FALSE)
  /\ UNCHANGED <<bulk, isReady, readyPromise>>
  /\ UNCHANGED <<refreshVars, appVars, routeVars, listVars>>

\* `await session.shutdown()` on the connection: the backend that serves the
\* session ends it and its kernel, the in-browser one through the
\* HybridKernelClient; the server may be out of reach
SessionsWithoutSession(x) == [sessions EXCEPT ![x] = GoneSession]
KernelsWithoutKernel(x, stopped) ==
  LET k == sessions[x].kernel
  IN  IF stopped THEN [kernels EXCEPT ![k] = Gone(@)] ELSE kernels
KernelStopped(x) ==
  IF sessions[x].where = "lite" THEN IsLiteKernelKC(sessions[x].kernel) ELSE TRUE

\* part_003 387-399: where HybridSessionManager.startNew sends a start
StartsWhere(name) == Delegate(HasLiteSpec(name))

\* the promoter's relaunch through this._serviceManager.sessions.startNew, or
\* through sessionContext.changeKernel, which starts a session the same way
\* once the old one is gone: the old session shut down, then a new one
\* started under `name` where HybridSessionManager.startNew sends it
Relaunch(op, x, name, startOk, endOk) ==
  LET d == StartsWhere(name)
      stopped == KernelStopped(x)
      k == sessions[x].kernel
      afterStop == KernelsWithoutKernel(x, stopped)
      started == d.lite = 1 \/ (startOk /\ ServedName(name) \in ServerNames)
      where == IF d.lite = 1 THEN "lite" ELSE "remote"
      servedAs == IF d.lite = 1 THEN name ELSE ServedName(name)
      liteAfter == (LiteSessions \ {x}) \cup (IF started /\ d.lite = 1 THEN {FreshSession} ELSE {})
      remoteAfter == (RemoteSessions \ {x}) \cup (IF started /\ d.lite = 0 THEN {FreshSession} ELSE {})
  IN  /\ kernels' = IF started
                    THEN [afterStop EXCEPT ![FreshKernel] = [where |-> where, name |-> servedAs]]
                    ELSE afterStop
      /\ sessions' = IF started
                     THEN [SessionsWithoutSession(x) EXCEPT ![FreshSession] =
                             [where |-> where, kernel |-> FreshKernel]]
                     ELSE SessionsWithoutSession(x)
      /\ liteKernelIds' =
           LET removed == IF sessions[x].where = "lite" /\ stopped
                          THEN liteKernelIds \ {k} ELSE liteKernelIds
           IN  IF started /\ d.lite = 1 THEN removed \cup {FreshKernel} ELSE removed
      /\ IF op = "promoteKernel"
         THEN SessionLists(IF ~started THEN <<>>
                           ELSE IF d.lite = 1 THEN <<Update("lite", liteAfter)>>
                           ELSE <<Update("remote", remoteAfter)>>)
         ELSE SessionLists(IF endOk
                           THEN <<Update("remote", remoteAfter), Update("lite", liteAfter)>>
                           ELSE <<Update("lite", liteAfter)>>)
      /\ promo' = Promotion(op, x,
                            IF op = "promoteKernel"
                            THEN (IF started THEN "promoted" ELSE "failed")
                            ELSE (IF endOk THEN "promoted" ELSE "failed"),
                            IF started THEN where ELSE "none",
                            \* part_003 95 after the awaited start; part_002 90
                            \* right after the unawaited changeKernel
                            IF op = "promoteKernel" THEN started ELSE TRUE)

\* one call of promoteKernel on the connection of session x
Promote(op, x, name) ==
  /\ FreeSessions # {} /\ FreeKernels # {}
  /\ IF ~IsLiteKernelKP(x)
     THEN /\ promo' = Promotion(op, x, "not-lite", "none", FALSE)
          /\ UNCHANGED <<kernels, sessions, liteKernelIds, liteSRun, listVars>>
     ELSE \E stopOk, startOk, endOk \in BOOLEAN :
            IF sessions[x].where = "remote" /\ ~stopOk
            THEN /\ promo' = Promotion(op, x, "failed", "none", FALSE)
                 /\ UNCHANGED <<kernels, sessions, liteKernelIds, liteSRun, listVars>>
            ELSE Relaunch(op, x, name, startOk, endOk)
  /\ UNCHANGED <<hsmBuilt, liteKRun, remKRun, last>>
  /\ UNCHANGED <<bulk, isReady, readyPromise>>
  /\ UNCHANGED <<refreshVars, appVars>>

\* part_003 67-117: shut the session down, start a new one with the same
\* kernel name through the session manager, return it
KP_promoteKernel(x) ==
  /\ IssuedSession(x)
  /\ Promote("promoteKernel", x, KernelNameOf(x))

\* part_002 71-127: shut the session down, have the session context change to
\* a kernel named python3, shut the old id down again (errors ignored),
\* refresh the running sessions, return true
KP_promoteKernelInContext(x) ==
  /\ IssuedSession(x)
  /\ Promote("promoteKernelInContext", x, "python3")

\* the application with both routers built and a population running, one or
\* both in-browser kernels registered, room for the promoter's sessions
InitPromote ==
  /\ mode = "hybrid"
  /\ cfgBaseUrl = ""
  /\ cfgToken = ""
  /\ liteNames \in {{"pyodide"}, LiteNames}
  /\ LET r == SettleRefresh(FlatPayload, FALSE, TRUE, Null, 0)
     IN  /\ specs = r.specs
         /\ emitCount = r.emitCount
         /\ lastDone = r.lastDone
  /\ nStarted = 1
  /\ calls = [c \in Slots |-> IdleCall]
  /\ life = SettledLife
  /\ hsmBuilt = TRUE
  /\ \E p \in Populations :
       /\ kernels = p.kernels
       /\ sessions = [x \in PromoterSessionIds |->
                        IF x \in SessionIds THEN p.sessions[x] ELSE NoSession]
  /\ liteKRun = LiteKernels
  /\ liteKernelIds = LiteKernels
  /\ liteSRun = LiteSessions
  /\ last = NoCall
  /\ bulk = NoBulk
  /\ remKRun = RemoteKernels
  /\ remSRun = RemoteSessions
  /\ outward = [km |-> NoSignal, sm |-> NoSignal]
  /\ isReady = [m \in Managers |-> TRUE]
  /\ readyPromise = NoPromises
  /\ promo = NoPromotion
  /\ InitApp

NextPromote ==
  \/ \E x \in PromoterSessionIds \cup {NullSession} : KP_isLiteKernel(x)
  \/ \E x \in PromoterSessionIds : KP_promoteKernel(x)
  \/ \E x \in PromoterSessionIds : KP_promoteKernelInContext(x)
  \/ RemoteSRefresh

SpecPromote == InitPromote /\ [][NextPromote]_vars

----------------------------------------------------------------------------
(* promoterplugin.ts: the promoter plugin and the settings registry; part_003
   160-192: auto-promotion *)

MaxLoads == 2   \* loads of the settings that may be pending at once

\* what the user may have in the settings of jupyterlab-hybrid-kernels:plugin
UserSettings ==
  [autoPromote : BOOLEAN, errorPatterns : {DefaultPatterns, {"ImportError"}}]

\* the tracebacks of the error messages a kernel may publish
Tracebacks ==
  {"ModuleNotFoundError: No module named 'numpy'",
   "ImportError: cannot import name 'x'",
   "ValueError: invalid literal"}

\* String.prototype.includes
IncludesText(text, pattern) ==
  \E i \in 1..Len(text) :
    i + Len(pattern) - 1 <= Len(text) /\ SubSeq(text, i, i + Len(pattern) - 1) = pattern

\* part_003 24-28 and 197-198: _autoPromote and _errorPatterns are the values
\* the constructor was given
SettingsOfPromoter == prefs.promoter

\* promoterplugin.ts 38-75: activate, the registry holding `user`. `settings`
\* starts as the defaults, the load is asked for (58) and answers later, and
\* the promoter is built at once with settings.autoPromote and
\* settings.errorPatterns (69-75); part_003 31-33: the handlers of
\* _setupAutoPromotion are connected if autoPromote is true then
KP_activate(user) ==
  /\ ~prefs.built
  /\ prefs' = [prefs EXCEPT !.built = TRUE,
                            !.user = user,
                            !.plugin = DefaultSettings,
                            !.loads = 1,
                            !.promoter = DefaultSettings,
                            !.wired = DefaultSettings.autoPromote]
  /\ UNCHANGED <<conn, paths>>
  /\ UNCHANGED <<refreshVars, routeVars, manageVars, listVars>>

\* promoterplugin.ts 45-54: a load answers or fails; when it answers, the
\* plugin's `settings` takes the values the registry holds
SettingsLoaded(ok) ==
  /\ prefs.built
  /\ prefs.loads > 0
  /\ prefs' = [prefs EXCEPT !.loads = @ - 1,
                            !.plugin = IF ok THEN prefs.user ELSE @]
  /\ UNCHANGED <<conn, paths>>
  /\ UNCHANGED <<refreshVars, routeVars, manageVars, listVars>>

\* the user edits the settings; pluginChanged fires and its handler (61-63)
\* asks for a load
SettingsChanged(new) ==
  /\ prefs.built
  /\ new # prefs.user
  /\ prefs.loads < MaxLoads
  /\ prefs' = [prefs EXCEPT !.user = new, !.loads = @ + 1]
  /\ UNCHANGED <<conn, paths>>
  /\ UNCHANGED <<refreshVars, routeVars, manageVars, listVars>>

\* part_003 163-189: an iopub error message arrives on a notebook opened
\* after the promoter was built; `lite` is what isLiteKernel says of its
\* session. The prompt is raised when a pattern occurs in the traceback
IopubError(traceback, lite) ==
  LET shouldPromote ==
        \E pattern \in SettingsOfPromoter.errorPatterns : IncludesText(traceback, pattern)
  IN  /\ prefs.built
      /\ prefs' = [prefs EXCEPT !.prompt =
                     [made |-> TRUE, traceback |-> traceback, lite |-> lite,
                      loaded |-> (prefs.loads = 0 /\ prefs.plugin = prefs.user),
                      raised |-> (prefs.wired /\ lite /\ shouldPromote)]]
      /\ UNCHANGED <<conn, paths>>
      /\ UNCHANGED <<refreshVars, routeVars, manageVars, listVars>>

\* the application before the promoter plugin is activated
InitSettings ==
  /\ mode = "hybrid"
  /\ cfgBaseUrl = ""
  /\ cfgToken = ""
  /\ liteNames = {"pyodide"}
  /\ LET r == SettleRefresh(FlatPayload, FALSE, TRUE, Null, 0)
     IN  /\ specs = r.specs
         /\ emitCount = r.emitCount
         /\ lastDone = r.lastDone
  /\ nStarted = 1
  /\ calls = [c \in Slots |-> IdleCall]
  /\ life = SettledLife
  /\ InitRouters

NextSettings ==
  \/ \E user \in UserSettings : KP_activate(user)
  \/ \E ok \in BOOLEAN : SettingsLoaded(ok)
  \/ \E new \in UserSettings : SettingsChanged(new)
  \/ \E traceback \in Tracebacks, lite \in BOOLEAN : IopubError(traceback, lite)

SpecSettings == InitSettings /\ [][NextSettings]_vars

----------------------------------------------------------------------------
(* part_003 421-451: HybridSessionManager.stopIfNeeded and findByPath *)

Paths == {"a.ipynb", "b.ipynb"}

\* the first of the models in a list that has the path, 0 when none has
FirstAtPath(ids, path) ==
  LET at == {x \in ids : paths.at[x] = path}
  IN  IF at = {} THEN 0 ELSE CHOOSE x \in at : \A y \in at : x <= y

\* a backend manager's findByPath: the cached model if it has one at the
\* path, else a refresh and whatever the list holds afterwards
PathProbe(side, path, list, items, end) ==
  IF FirstAtPath(list, path) # 0
  THEN [hit |-> FirstAtPath(list, path), rejected |-> FALSE, updates |-> <<>>]
  ELSE IF end = "rejected" THEN [hit |-> 0, rejected |-> TRUE, updates |-> <<>>]
  ELSE IF end = "stale" THEN [hit |-> 0, rejected |-> FALSE, updates |-> <<>>]
  ELSE [hit |-> FirstAtPath(items, path), rejected |-> FALSE,
        updates |-> <<Update(side, items)>>]

\* part_003 445-451: the remote manager is asked, the in-browser one only if
\* the remote one resolves without a model
FindByPath(remote, lite) ==
  IF remote.rejected
  THEN [outcome |-> "rejected", found |-> 0, updates |-> remote.updates]
  ELSE IF remote.hit # 0
  THEN [outcome |-> "resolved", found |-> remote.hit, updates |-> remote.updates]
  ELSE [outcome |-> IF lite.rejected THEN "rejected" ELSE "resolved",
        found |-> lite.hit,
        updates |-> remote.updates \o lite.updates]

\* part_003 424-429: findByPath, then shutdown (404-409) of the session found:
\* by the in-browser manager if its list has the id, else by the remote one,
\* which may be out of reach, takes a session that is already gone for shut
\* down and refreshes its list afterwards
SM_stopIfNeeded(path) ==
  /\ hsmBuilt
  /\ \E end \in RefreshEnds, ok \in BOOLEAN :
       LET f == FindByPath(PathProbe("remote", path, remSRun, RemoteSessions, end),
                           PathProbe("lite", path, liteSRun, LiteSessions, "fresh"))
           id == f.found
           isLite == id \in After("lite", f.updates, liteSRun)
           k == sessions[id].kernel
           stop(outcome) == [path |-> path, outcome |-> outcome, found |-> id]
       IN  IF f.outcome = "rejected" \/ id = 0
           THEN /\ SessionLists(f.updates)
                /\ UNCHANGED <<kernels, sessions, liteKernelIds>>
                /\ paths' = [paths EXCEPT !.stop = stop(f.outcome)]
           ELSE IF isLite
           THEN /\ IF IsLiteKernelKC(k)
                   THEN LiteStopKernel(k)
                   ELSE RemoteStopKernel(k, TRUE) /\ UNCHANGED liteKernelIds
                /\ sessions' = [sessions EXCEPT ![id] = GoneSession]
                /\ SessionLists(f.updates \o <<Update("lite", LiteSessions \ {id})>>)
                /\ paths' = [paths EXCEPT !.stop = stop("resolved")]
           ELSE IF ~ok
           THEN /\ SessionLists(f.updates)
                /\ UNCHANGED <<kernels, sessions, liteKernelIds>>
                /\ paths' = [paths EXCEPT !.stop = stop("rejected")]
           ELSE /\ IF sessions[id].where = "remote"
                   THEN /\ RemoteStopKernel(k, TRUE)
                        /\ sessions' = [sessions EXCEPT ![id] = GoneSession]
                   ELSE UNCHANGED <<kernels, sessions>>
                /\ UNCHANGED liteKernelIds
                /\ SessionLists(f.updates \o <<Update("remote", RemoteSessions \ {id})>>)
                /\ paths' = [paths EXCEPT !.stop = stop("resolved")]
  /\ UNCHANGED <<hsmBuilt, liteKRun, remKRun, last>>
  /\ UNCHANGED <<refreshVars, manageVars, conn, prefs>>

\* both routers built; an in-browser session and a server session, each
\* running, not started or, the server's, ended without the manager's list
\* knowing; the notebooks they were started for
InitStop ==
  /\ mode = "hybrid"
  /\ cfgBaseUrl = ""
  /\ cfgToken = ""
  /\ liteNames = {"pyodide"}
  /\ LET r == SettleRefresh(FlatPayload, FALSE, TRUE, Null, 0)
     IN  /\ specs = r.specs
         /\ emitCount = r.emitCount
         /\ lastDone = r.lastDone
  /\ nStarted = 1
  /\ calls = [c \in Slots |-> IdleCall]
  /\ life = SettledLife
  /\ hsmBuilt = TRUE
  /\ \E s1 \in {NoSession, [where |-> "lite", kernel |-> 1]},
        s2 \in {NoSession, GoneSession, [where |-> "remote", kernel |-> 2]} :
       /\ sessions = [x \in PromoterSessionIds |->
                        IF x = 1 THEN s1 ELSE IF x = 2 THEN s2 ELSE NoSession]
       /\ kernels = [k \in KernelIds |->
                       IF k = 1 /\ s1.where = "lite" THEN [where |-> "lite", name |-> "pyodide"]
                       ELSE IF k = 2 /\ s2.where = "remote"
                       THEN [where |-> "remote", name |-> "python3"]
                       ELSE IF k = 2 /\ s2.where = "gone" THEN Gone(NoKernel)
                       ELSE NoKernel]
  /\ liteKRun = LiteKernels
  /\ liteKernelIds = LiteKernels
  /\ liteSRun = LiteSessions
  /\ last = NoCall
  /\ bulk = NoBulk
  /\ remKRun = RemoteKernels
  /\ remSRun \in SUBSET {x \in DOMAIN sessions : sessions[x].where \in {"remote", "gone"}}
  /\ outward = [km |-> NoSignal, sm |-> NoSignal]
  /\ isReady = [m \in Managers |-> TRUE]
  /\ readyPromise = NoPromises
  /\ promo = NoPromotion
  /\ conn = NoConn
  /\ prefs = NoPrefs
  /\ \E at \in [PromoterSessionIds -> Paths] : paths = [at |-> at, stop |-> NoStop]

NextStop ==
  \/ \E path \in Paths : SM_stopIfNeeded(path)
  \/ RemoteSRefresh

SpecStop == InitStop /\ [][NextStop]_vars

----------------------------------------------------------------------------
(* Routing properties, checked under SpecRoute *)

IdOps == {"shutdown", "restart", "interrupt"}
IsKernelCall(c) == c.router \in {"KM", "KC"}
Running(c) ==
  IF IsKernelCall(c) THEN kernels[c.id].where \in {"lite", "remote"}
  ELSE sessions[c.id].where \in {"lite", "remote"}

C2_LocalIdsHandledLocally ==
  (last.op \in IdOps /\ last.inLocal) =>
    /\ last.lite = 1 /\ last.remote = 0
    /\ last.nop # "none" => last.nlite = 1 /\ last.nremote = 0

\* C3: connectTo, shutdown, restart and interrupt go to the in-browser backend
\* exactly when the id is in its running enumeration, whatever the kernel name.
C3_RoutedByIdAlone ==
  last.op \in IdOps \cup {"connectTo"} =>
    /\ last.lite = 1 <=> last.inLocal
    /\ last.remote = 1 <=> ~last.inLocal

\* C4: two successive routing operations on the same kernel or session id,
\* the kernel or session running throughout, classify the id the same way.
C4_ClassifiedConsistently ==
  [][(/\ last.id # 0
      /\ last'.id = last.id
      /\ IsKernelCall(last') = IsKernelCall(last)
      /\ Running(last))
     => last'.lite = last.lite]_vars

\* C5: every startNew, connectTo, shutdown, restart or interrupt on a router
\* calls exactly one backend, once; so does the kernel call a session call
\* makes on its way.
C5_ExactlyOneBackend ==
  last.router # "none" =>
    /\ last.lite + last.remote = 1
    /\ last.nop # "none" => last.nlite + last.nremote = 1

\* a restart of a kernel that neither backend runs any more
C5_Witness ==
  /\ last.op = "restart"
  /\ kernels[last.id].where = "gone"
  /\ last.lite = 0
  /\ last.remote = 1

\* C19: when the backend chosen for a startNew, shutdown, restart or interrupt
\* fails, the router's promise rejects with that same error; and a shutdown,
\* restart or interrupt of an id that neither backend runs goes to the remote
\* backend, whose not-found error reaches the caller.
C19_BackendErrorReachesCaller ==
  (IsKernelCall(last) /\ last.op \in IdOps \cup {"startNew"}) =>
    /\ last.err = last.ends
    /\ (last.op \in IdOps /\ ~last.known /\ last.ends # "network") =>
         (last.remote = 1 /\ last.lite = 0 /\ last.err = "not-found")

----------------------------------------------------------------------------
(* Registry properties, checked under SpecRefresh *)

Settled == lastDone.outcome # "none"
Rebuilt == lastDone.outcome = "rebuilt"
KernelspecsOf(registry) == OptGet(registry, "kernelspecs")
NamesOf(registry) == KeysOf(KernelspecsOf(registry))
\* the server-side names whose entry the merge can take over
KeptServerNames ==
  IF mode = "remote"
  THEN {k \in NamesOf(lastDone.serverSpecs) : Truthy(KernelspecsOf(lastDone.serverSpecs).v[k])}
  ELSE NamesOf(lastDone.serverSpecs)
LiteEntriesStored ==
  \A k \in NamesOf(lastDone.liteSpecs) :
    KernelspecsOf(specs).v[k] = KernelspecsOf(lastDone.liteSpecs).v[k]

FailedOrEmpty(registry) == NamesOf(registry) = {}

\* C7: a refreshSpecs that finds both the server-side and the in-process specs
\* failed or empty, a non-empty registry being in place, leaves specs as it
\* was and emits no specsChanged.
C7_NothingFoundKeepsRegistry ==
  (/\ Settled
   /\ FailedOrEmpty(lastDone.serverSpecs)
   /\ FailedOrEmpty(lastDone.liteSpecs)
   /\ ~FailedOrEmpty(lastDone.prevSpecs))
  => /\ specs = lastDone.prevSpecs
     /\ emitCount = lastDone.prevEmit

\* C8: a failure of the server side (an error in either mode, a non-success
\* status in remote mode) leaves the server specs absent and never makes
\* refreshSpecs throw; with in-process specs at hand the registry is rebuilt
\* from them alone.
C8_ServerFailureIsAbsence ==
  (Settled /\ lastDone.serverFailed) =>
    /\ lastDone.serverSpecs = Null
    /\ lastDone.outcome # "threw"
    /\ Truthy(lastDone.liteSpecs) =>
         /\ Rebuilt
         /\ specs = Obj(("default" :> Get(lastDone.liteSpecs, "default"))
                        @@ ("kernelspecs" :> KernelspecsOf(lastDone.liteSpecs)))

\* a remote-mode refresh whose fetch failed, rebuilt from in-process specs
C8_Witness ==
  /\ mode = "remote"
  /\ lastDone.serverFailed
  /\ Rebuilt
  /\ NamesOf(specs) = LiteNames

\* C9: the rewriting of server specs never throws, whatever the payload and
\* the configured baseUrl, so that no payload makes refreshSpecs reject.
C9_RewritingIsTotal ==
  lastDone.outcome # "threw"

\* C10: in hybrid mode the server-side entries are stored as the server gave
\* them, and in both modes the in-process entries, resources included, are
\* stored as the in-process engine supplied them.
C10_RewritingOnlyRemoteServerSide ==
  Rebuilt =>
    /\ mode = "hybrid" =>
         \A k \in NamesOf(lastDone.serverSpecs) \ NamesOf(lastDone.liteSpecs) :
           KernelspecsOf(specs).v[k] = KernelspecsOf(lastDone.serverSpecs).v[k]
    /\ \A k \in NamesOf(lastDone.liteSpecs) :
         Get(KernelspecsOf(specs).v[k], "resources")
           = Get(KernelspecsOf(lastDone.liteSpecs).v[k], "resources")

\* a remote-mode rebuild that rewrote a server entry's resources beside an
\* in-process entry
C10_Witness ==
  /\ mode = "remote"
  /\ Rebuilt
  /\ NamesOf(lastDone.liteSpecs) # {}
  /\ \E k \in KeptServerNames \ NamesOf(lastDone.liteSpecs) :
       /\ KeysOf(Get(KernelspecsOf(specs).v[k], "resources")) # {}
       /\ Get(KernelspecsOf(specs).v[k], "resources")
            # ResourcesOf(KernelspecsOf(lastDone.serverSpecs).v[k])

----------------------------------------------------------------------------
(* Rewriting properties, checked under SpecRefresh *)

\* the server-side entries a remote-mode rebuild rewrote and stored
RewrittenNames ==
  IF Rebuilt /\ mode = "remote"
  THEN KeptServerNames \ NamesOf(lastDone.liteSpecs)
  ELSE {}
SourceResources(k) == ResourcesOf(KernelspecsOf(lastDone.serverSpecs).v[k])
StoredResources(k) == Get(KernelspecsOf(specs).v[k], "resources")
StringKeys(resources) == {r \in KeysOf(resources) : resources.v[r].t = "str"}
\* every string resource of every rewritten entry satisfies P(source, stored)
EveryRewritten(P(_, _)) ==
  \A k \in RewrittenNames :
    /\ KeysOf(StoredResources(k)) = StringKeys(SourceResources(k))
    /\ \A r \in StringKeys(SourceResources(k)) :
         P(SourceResources(k).v[r].v, StoredResources(k).v[r].v)
SomeRewritten(P(_, _)) ==
  \E k \in RewrittenNames : \E r \in StringKeys(SourceResources(k)) :
    P(SourceResources(k).v[r].v, StoredResources(k).v[r].v)

\* scheme and host of the base URLs in use, written out
OriginOfBase(baseUrl) ==
  CASE baseUrl = "https://host/prefix/" -> "https://host"
    [] baseUrl = "http://localhost:8888/" -> "http://localhost:8888"
    [] OTHER -> "?"
C11_Rule(value, stored) ==
  IF StartsWith(value, "http://") \/ StartsWith(value, "https://") THEN stored = value
  ELSE IF StartsWith(value, "/") THEN stored = OriginOfBase(lastDone.baseUrl) \o value
  ELSE stored = lastDone.baseUrl \o value

\* C11: with no token configured, a rewritten resource value that begins with
\* http:// or https:// is stored unchanged, one that begins with / is stored
\* as the origin of baseUrl followed by the value, and any other is stored as
\* the whole baseUrl, path included, followed by the value.
C11_AbsoluteUrlBySchemeRootOrJoin ==
  lastDone.token = "" => EveryRewritten(C11_Rule)

C11_RootRelative(value, stored) ==
  /\ value = "/kernelspecs/python3/logo.png"
  /\ stored = "https://host/kernelspecs/python3/logo.png"
\* a root-relative value rewritten against a baseUrl that has a path
C11_Witness ==
  /\ lastDone.token = ""
  /\ lastDone.baseUrl = "https://host/prefix/"
  /\ SomeRewritten(C11_RootRelative)

C12_Rule(value, stored) ==
  IF lastDone.token = "a b"
  THEN EndsWith(stored, (IF Includes(value, "?") THEN "&" ELSE "?") \o "token=a%20b")
  ELSE \A i \in 1..Len(stored) : ~StartsWith(SubSeq(stored, i, Len(stored)), "token=")

\* C12: with a token configured every rewritten resource URL ends with
\* token=<encoded token>, after & when the URL already has a query string and
\* after ? otherwise; with no token configured no token parameter is added.
C12_TokenAppendedAsQueryParameter ==
  lastDone.token \in {"", "a b"} /\ EveryRewritten(C12_Rule)

C12_AfterAmpersand(value, stored) ==
  Includes(value, "?") /\ EndsWith(stored, "?v=1&token=a%20b")
\* a value with a query string rewritten with a token configured
C12_Witness ==
  lastDone.token = "a b" /\ SomeRewritten(C12_AfterAmpersand)

----------------------------------------------------------------------------
(* Properties of the calls on both backends, checked under SpecManage *)

\* C13: HybridKernelClient.listRunning resolves whenever the in-browser
\* enumeration succeeds: with the in-browser kernels followed by the remote
\* ones if the remote enumeration succeeds, with exactly the in-browser
\* kernels if it fails.
C13_ListRunningSurvivesRemoteFailure ==
  (bulk.router = "KC" /\ bulk.op = "listRunning" /\ bulk.liteOk) =>
    /\ bulk.outcome = "resolved"
    /\ bulk.remoteOk => bulk.result = bulk.liteList \o bulk.remoteList
    /\ ~bulk.remoteOk => bulk.result = bulk.liteList

\* the remote enumeration failed while both backends run a kernel
C13_Witness ==
  /\ bulk.router = "KC" /\ bulk.op = "listRunning"
  /\ bulk.liteOk /\ ~bulk.remoteOk
  /\ bulk.liteList # <<>> /\ bulk.remoteList # <<>>
  /\ bulk.outcome = "resolved"
  /\ bulk.result = bulk.liteList

\* C14: shutdownAll on each router shuts both backends' populations down, and
\* when the remote side fails the call still resolves with the in-browser
\* population shut down.
C14_ShutdownAllSwallowsRemoteFailure ==
  bulk.op = "shutdownAll" =>
    /\ bulk.outcome = "resolved"
    /\ IF bulk.router = "SM" THEN LiteSessions = {} ELSE LiteKernels = {}
    /\ bulk.remoteOk =>
         IF bulk.router = "SM" THEN RemoteSessions = {} ELSE RemoteKernels = {}

NoRepeats(seq) == \A i, j \in DOMAIN seq : seq[i] = seq[j] => i = j
Range(seq) == {seq[i] : i \in DOMAIN seq}
LastOf(seq) == seq[Len(seq)]

\* C15: running() of the hybrid kernel manager and of the hybrid session
\* manager yields every item of both backend managers' lists exactly once, and
\* every runningChanged of a backend manager makes the hybrid manager emit
\* exactly once, with what running() yields at that moment as the payload.
C15_RunningMergedAndForwardedOnce ==
  /\ LET km == RunningOf(remKRun, liteKRun)
         sm == RunningOf(remSRun, liteSRun)
     IN  /\ Range(km) = remKRun \cup liteKRun /\ NoRepeats(km)
         /\ Range(sm) = remSRun \cup liteSRun /\ NoRepeats(sm)
  /\ outward.km.payloads = outward.km.moments
  /\ outward.sm.payloads = outward.sm.moments
  /\ outward.km.payloads # <<>> =>
       LastOf(outward.km.payloads) = Listed(remKRun) \o Listed(liteKRun)
  /\ outward.sm.payloads # <<>> =>
       LastOf(outward.sm.payloads) = Listed(remSRun) \o Listed(liteSRun)

\* the remote kernel manager's list has changed while the in-browser one holds
\* kernels, and the payload carries both
C15_Witness ==
  /\ Len(outward.km.payloads) = 1
  /\ remKRun # {} /\ liteKRun # {}
  /\ Range(outward.km.payloads[1]) = remKRun \cup liteKRun

----------------------------------------------------------------------------
(* Refresh and lookup properties, checked under SpecLookup *)

\* C17: refreshRunning of a hybrid manager starts both backend managers'
\* refreshes, the second without waiting for the first, resolves only if both
\* resolve and rejects if either fails.
C17_RefreshRunningAwaitsBoth ==
  bulk.op = "refreshRunning" =>
    /\ bulk.started = {"remote", "lite"}
    /\ bulk.outcome = "resolved" <=> (bulk.liteOk /\ bulk.remoteOk)
    /\ bulk.outcome = "rejected" <=> (~bulk.liteOk \/ ~bulk.remoteOk)

\* the remote refresh failed: the call rejected, yet the in-browser manager's
\* refresh had been started and has brought its list up to date
C17_Witness ==
  /\ bulk.router = "KM" /\ bulk.op = "refreshRunning"
  /\ ~bulk.remoteOk /\ bulk.liteOk
  /\ bulk.outcome = "rejected"
  /\ "lite" \in bulk.started
  /\ remKRun # RemoteKernels /\ liteKRun = LiteKernels /\ liteKRun # {}

\* C18: findById of a hybrid manager asks the in-browser backend first and
\* the remote backend only if the in-browser one has no such item, returns the
\* first hit, and resolves to undefined, without rejecting, when neither
\* backend has the id.
C18_FindByIdLocalFirst ==
  bulk.op = "findById" =>
    /\ bulk.probes # <<>> /\ bulk.probes[1] = "lite"
    /\ bulk.inLite => (bulk.probes = <<"lite">> /\ bulk.result = <<bulk.id>>)
    /\ (~bulk.inLite /\ ~bulk.inRemote) =>
         (bulk.outcome = "resolved" /\ bulk.result = <<>>)

----------------------------------------------------------------------------
(* Configuration properties, checked under SpecConfig *)

\* the base URL and token a request must go out with under the configuration
\* as it stands
Slashed(url) == IF SubSeq(url, Len(url), Len(url)) = "/" THEN url ELSE url \o "/"
BaseUrlNow ==
  IF cfgBaseUrl = "" THEN "http://localhost:8888/" ELSE Slashed(cfgBaseUrl)
SpecsUrlNow ==
  BaseUrlNow \o "api/kernelspecs" \o
    (IF cfgToken = "" THEN "" ELSE "?token=" \o encodeURIComponent(cfgToken))
WsUrlNow ==
  IF cfgBaseUrl = "" THEN "ws://localhost:8888/"
  ELSE IF Len(cfgBaseUrl) >= 4 /\ SubSeq(cfgBaseUrl, 1, 4) = "http"
  THEN Slashed("ws" \o SubSeq(cfgBaseUrl, 5, Len(cfgBaseUrl)))
  ELSE Slashed(cfgBaseUrl)

SendsSpecsRequest(c) == calls[c].pc = "idle" /\ calls'[c].pc = "server"
SendsListRequest == bulk' # bulk /\ bulk'.op = "listRunning"

\* C20: whatever RemoteServerConfig.update has written, the next remote call of
\* a spec manager or router built before goes out with the base URL and token
\* the configuration holds at that moment: the settings object reads baseUrl,
\* wsUrl and token from the store at every access.
C20_NextCallUsesCurrentConfig ==
  [][/\ \A c \in Slots : SendsSpecsRequest(c) => calls'[c].url = SpecsUrlNow
     /\ SendsListRequest =>
          /\ bulk'.url = BaseUrlNow \o "api/kernels"
          /\ bulk'.token = cfgToken
          /\ bulk'.wsUrl = WsUrlNow]_vars

\* two refreshes in flight, the first sent to the page's own server, the
\* second, after an update, to the configured one with its token
C20_Witness ==
  /\ calls[1].pc = "server" /\ calls[1].url = "http://localhost:8888/api/kernelspecs"
  /\ calls[2].pc = "server"
  /\ calls[2].url = "https://host/prefix/api/kernelspecs?token=a%20b"
  /\ cfgBaseUrl = "https://host/prefix" /\ cfgToken = "a b"

----------------------------------------------------------------------------
(* Readiness properties, checked under SpecReady *)

BothReady(a, b) == isReady[a] = TRUE /\ isReady[b] = TRUE

\* C16: isReady of a hybrid manager is false whenever either of its backend
\* managers is not ready and true only when both are, and the promise its
\* `ready` returned is resolved exactly when both backend managers have become
\* ready, whichever came first.
C16_ReadyIffBothBackendsReady ==
  /\ KM_isReady <=> BothReady("_kernelManager", "_liteKernelManager")
  /\ SM_isReady <=> BothReady("_sessionManager", "_liteSessionManager")
  /\ readyPromise.km = "resolved" => BothReady("_kernelManager", "_liteKernelManager")
  /\ readyPromise.km = "pending" => ~BothReady("_kernelManager", "_liteKernelManager")
  /\ readyPromise.sm = "resolved" => BothReady("_sessionManager", "_liteSessionManager")
  /\ readyPromise.sm = "pending" => ~BothReady("_sessionManager", "_liteSessionManager")

\* the kernel manager's promise has resolved while the session manager, with
\* only its in-browser side ready, still reports not ready
C16_Witness ==
  /\ readyPromise.km = "resolved" /\ KM_isReady
  /\ isReady["_liteSessionManager"] /\ ~isReady["_sessionManager"]
  /\ readyPromise.sm = "pending" /\ ~SM_isReady

----------------------------------------------------------------------------
(* Atomic replacement of the registry, checked under SpecRefresh *)

\* whether a registry is whole and holds nothing but what one settled call
\* had in hand: every name of either side of that call and no other name,
\* each entry the one that call stored for it, the default one of its defaults
BuiltWholeBy(registry, done) ==
  LET server == IF mode = "remote"
                THEN TransformRemoteSpecResources(done.serverSpecs, done.baseUrl, done.token)
                ELSE done.serverSpecs
      serverNames == NamesOf(server)
      liteNamesOfCall == NamesOf(done.liteSpecs)
  IN  /\ KeysOf(registry) = {"default", "kernelspecs"}
      /\ NamesOf(registry) = serverNames \cup liteNamesOfCall
      /\ \A k \in liteNamesOfCall :
           KernelspecsOf(registry).v[k] = KernelspecsOf(done.liteSpecs).v[k]
      /\ \A k \in serverNames \ liteNamesOfCall :
           KernelspecsOf(registry).v[k] = KernelspecsOf(server).v[k]
      /\ Get(registry, "default") \in {OptGet(done.serverSpecs, "default"),
                                       OptGet(done.liteSpecs, "default"), Str("")}

\* C21: specs is null until a refreshSpecs call rebuilds it, and every change
\* of specs replaces it by the complete registry of the one call that settles
\* in that step: no step leaves a registry holding part of a merge or
\* entries of two refreshes.
C21_RegistryReplacedWhole ==
  [][specs' # specs =>
       /\ lastDone'.outcome = "rebuilt"
       /\ lastDone'.prevSpecs = specs
       /\ BuiltWholeBy(specs', lastDone')]_vars

\* a second rebuild has replaced a registry that held names the new one lacks
C21_Witness ==
  /\ Rebuilt
  /\ lastDone.prevSpecs # Null
  /\ NamesOf(lastDone.prevSpecs) \ NamesOf(specs) # {}
  /\ NamesOf(specs) # {}

----------------------------------------------------------------------------
(* Polling and disposal properties, checked under SpecPoll *)

\* C22: no poll-driven refreshSpecs() starts, and the poll is not started,
\* before the constructor's refreshSpecs() has settled and the ready promise
\* has resolved.
C22_PollWaitsForReady ==
  (life.ticks > 0 \/ life.poll = "started") =>
    /\ life.ready = "resolved"
    /\ Settled

\* the poll has driven a refresh after the first one settled
C22_Witness ==
  /\ life.ticks = 1
  /\ life.ready = "resolved"
  /\ nStarted = 2
  /\ \E c \in Slots : calls[c].pc = "server"

\* C23: a dispose() after the first changes nothing, and once the manager is
\* disposed neither a poll tick nor a kernelSpecs.changed notification
\* starts a refreshSpecs().
C23_DisposedManagerStartsNoRefresh ==
  [][life.disposed =>
       /\ life'.disposals # life.disposals =>
            /\ life' = [life EXCEPT !.disposals = @ + 1]
            /\ UNCHANGED <<specs, emitCount, nStarted, calls, liteNames>>
       /\ ~(/\ nStarted' > nStarted
            /\ life'.ticks # life.ticks \/ liteNames' # liteNames)]_vars

----------------------------------------------------------------------------
(* Failure of the in-process refresh, checked under SpecRefresh *)

\* C24: no refreshSpecs() call ends rejected because the in-process engine's
\* spec refresh failed inside it.
C24_LiteFailureDoesNotReject ==
  lastDone.outcome # "rejected"

----------------------------------------------------------------------------
(* Promotion properties, checked under SpecPromote *)

\* C25: isLiteKernel(session) is true exactly when the session's running
\* kernel is served by the in-browser backend; it is false for a null
\* session, for a session without a kernel and for a session whose kernel
\* the server runs.
C25_IsLiteKernelTellsBackend ==
  promo.op = "isLiteKernel" => (promo.answer <=> promo.local)

\* C26: when promoteKernel has succeeded on a session whose kernel the
\* in-browser backend served, the replacement kernel was started on the remote
\* backend.
C26_PromotedKernelIsRemote ==
  (promo.op \in {"promoteKernel", "promoteKernelInContext"}
     /\ promo.outcome = "promoted" /\ promo.local)
    => promo.replaced = "remote"

----------------------------------------------------------------------------
(* Membership of the in-browser backend, checked under SpecRoute *)

\* C27: once the HybridKernelClient is constructed, the id set it classifies
\* kernels by equals the set of ids the in-browser kernel client runs,
\* kernels started before its construction included.
C27_LiteIdSetIsLiteRunningSet ==
  hsmBuilt => liteKernelIds = LiteKernels

----------------------------------------------------------------------------
(* The default of the registry, checked under SpecRefresh *)

NonEmptyName(d) == d.t = "str" /\ d.v # ""

\* C28: the default of a rebuilt registry is the first non-empty default
\* name, the server side's before the in-process one's: a server-side default
\* that is missing or empty gives way to a non-empty in-process default.
C28_DefaultIsFirstNonEmpty ==
  Rebuilt =>
    LET serverDefault == OptGet(lastDone.serverSpecs, "default")
        liteDefault == OptGet(lastDone.liteSpecs, "default")
    IN  Get(specs, "default") =
          IF NonEmptyName(serverDefault) THEN serverDefault
          ELSE IF NonEmptyName(liteDefault) THEN liteDefault
          ELSE Str("")

----------------------------------------------------------------------------
(* Normalisation of server entries, checked under SpecRefresh *)

Present(x) == ~Nullish(x)
\* the value a field of the normalised entry must hold: the source's, or the
\* filler when the source has none
FilledFrom(source, field, filler) ==
  IF Present(Get(source, field)) THEN Get(source, field) ELSE filler

\* the rule for the entry stored under a map key, given the server's raw entry
C29_Rule(key, raw, stored) ==
  LET nested == Present(Get(raw, "spec"))
      source == IF nested THEN Get(raw, "spec") ELSE raw
      resources == IF Present(Get(raw, "resources")) THEN Get(raw, "resources")
                   ELSE IF Present(Get(source, "resources")) THEN Get(source, "resources")
                   ELSE EmptyObj
  IN  /\ KeysOf(stored) = {"name", "display_name", "language", "argv", "env",
                           "metadata", "resources"}
      /\ Get(stored, "name") = FilledFrom(source, "name", Str(key))
      /\ Get(stored, "display_name") = FilledFrom(source, "display_name", Str(key))
      /\ Get(stored, "language") = FilledFrom(source, "language", Str(""))
      /\ Get(stored, "argv") = FilledFrom(source, "argv", EmptyArr)
      /\ Get(stored, "env") = FilledFrom(source, "env", EmptyObj)
      /\ Get(stored, "metadata") = FilledFrom(source, "metadata", EmptyObj)
      /\ Get(stored, "resources").t = "obj"
      /\ KeysOf(Get(stored, "resources")) = StringKeys(resources)

\* C29: every server entry normalised in remote mode takes its fields from
\* entry.spec when it is nested and from the entry when it is flat, its
\* resources from entry.resources when present and from entry.spec.resources
\* otherwise, and has each missing field filled: name and display_name with
\* the map key, language with "", argv, env and metadata with empty
\* containers, resources with {}.
C29_EntriesNormalised ==
  \A k \in RewrittenNames :
    C29_Rule(k, KernelspecsOf(lastDone.serverSpecs).v[k], KernelspecsOf(specs).v[k])

\* a rebuild that normalised an envelope with a name and resources on both
\* levels, one with resources on the inner level only and a flat entry
C29_Witness ==
  /\ {"julia", "ir", "bash"} \subseteq RewrittenNames
  /\ Get(KernelspecsOf(specs).v["julia"], "name") = Str("julia-1.10")
  /\ KeysOf(StoredResources("julia")) = {"logo-64x64"}
  /\ Get(KernelspecsOf(specs).v["ir"], "name") = Str("ir")
  /\ KeysOf(StoredResources("ir")) = {"kernel.js"}
  /\ Get(KernelspecsOf(specs).v["bash"], "language") = Str("")
  /\ KeysOf(StoredResources("bash")) = {}

----------------------------------------------------------------------------
(* Overlapping refreshes, checked under SpecOverlap *)

\* the constructor's call, the first to start, is still in flight in slot 1
FirstCallInFlight == life.ready = "pending" /\ calls[1].pc # "idle"

\* C30: when the constructor's refreshSpecs() settles after a call that
\* started later has already built the registry, it leaves that registry in
\* place: the result of the older fetch does not overwrite the newer one.
C30_NewestRefreshWins ==
  [][(FirstCallInFlight /\ calls'[1].pc = "idle" /\ emitCount > 0)
       => specs' = specs]_vars

----------------------------------------------------------------------------
(* C31: one refreshSpecs() and the configuration it reads *)

\* lines 137-140: the request a call sends for a baseUrl and a token
SpecsRequestFor(baseUrl, token) ==
  LET specsUrl == UrlJoin(baseUrl, "api/kernelspecs")
  IN  IF token # "" THEN specsUrl \o "?token=" \o encodeURIComponent(token) ELSE specsUrl

\* the step in which call c, holding the answer to its fetch (142-145),
\* rebuilds the registry
RebuildsFromFetch(c) ==
  /\ mode = "remote"
  /\ calls[c].pc = "lite"
  /\ calls'[c].pc = "idle"
  /\ Truthy(calls[c].serverSpecs)
  /\ lastDone'.outcome = "rebuilt"

\* C31: in remote mode, the baseUrl and token a refreshSpecs() call rewrites
\* the fetched resource URLs with are the baseUrl and token it fetched the
\* specs with, whatever RemoteServerConfig.update does while it is in flight
C31_RewritesWithFetchConfig ==
  [][\A c \in Slots :
       RebuildsFromFetch(c) =>
         calls[c].url = SpecsRequestFor(lastDone'.baseUrl, lastDone'.token)]_vars

----------------------------------------------------------------------------
(* C32: the token and the resource URLs of other origins *)

\* an absolute http(s) value whose origin is not the origin of baseUrl
ForeignUrl(value) ==
  SchemeLen(value) > 0 /\ UrlOrigin(value) # UrlOrigin(lastDone.baseUrl)

C32_Rule(value, stored) == ForeignUrl(value) => stored = value

\* C32: a rewritten resource value that is already an absolute http(s) URL of
\* an origin other than the origin of baseUrl is stored without the token
C32_TokenOnlyForConfiguredServer ==
  EveryRewritten(C32_Rule)

----------------------------------------------------------------------------
(* C36: what promoteKernel reports, checked under SpecPromote *)

PromoteOps == {"promoteKernel", "promoteKernelInContext"}

\* the last call of promoteKernel reported success: it returned true or the
\* new session, or it emitted kernelPromoted
ReportedSuccess == promo.outcome = "promoted" \/ promo.emitted

\* C36: promoteKernel returns success or emits kernelPromoted only when the
\* replacement kernel has been started; when the shutdown of the old kernel
\* or the start of the replacement failed it reports failure and emits nothing
C36_SuccessOnlyAfterReplacementStarted ==
  (promo.op \in PromoteOps /\ ReportedSuccess) => promo.replaced # "none"

\* the same of the version that awaits the start (part_003 67-117) alone
C36_AwaitedStartReportsTruly ==
  (promo.op = "promoteKernel" /\ ReportedSuccess) => promo.replaced # "none"

----------------------------------------------------------------------------
(* C34: the ready promise, checked under SpecPollFair *)

\* C34: once the constructor's refreshSpecs() has settled, fulfilled or
\* rejected, `ready` resolves and never rejects; isReady is true from then on
\* unless the manager was disposed before that moment, in which case it is
\* false then and stays false
C34_ReadyAlwaysResolves ==
  /\ [][/\ life'.ready # "rejected"
        /\ (life.ready = "pending" /\ life'.ready # "pending") =>
             (life'.ready = "resolved" /\ life'.isReady = ~life.disposed)
        /\ life.ready # "pending" => life'.isReady = life.isReady]_vars
  /\ (ReactionDue ~> life.ready = "resolved")

\* `ready` resolved and isReady set after a constructor's refresh that rejected
C34_Witness ==
  /\ life.ready = "resolved"
  /\ life.isReady
  /\ nStarted = 1
  /\ lastDone.outcome = "rejected"

----------------------------------------------------------------------------
(* C38: RemoteServerConfig.update, checked under SpecConfig *)

\* a step in which update() was called: it left its record, or wrote a field
UpdateCalled ==
  conn'.update # conn.update \/ cfgBaseUrl' # cfgBaseUrl \/ cfgToken' # cfgToken

\* what a field holds after update() was given `value` for it
FieldAfter(current, value) ==
  IF value # NotGiven /\ value # current THEN value ELSE current

\* C38: update({baseUrl, token}) writes a field only when it is provided and
\* differs from the current value, leaves an omitted field unchanged, and
\* emits `changed` once if at least one field was written and not at all
\* otherwise, so that repeating an update writes and emits nothing
C38_UpdateWritesChangedFieldsEmitsOnce ==
  [][UpdateCalled =>
       /\ cfgBaseUrl' = FieldAfter(cfgBaseUrl, conn'.update.baseUrl)
       /\ cfgToken' = FieldAfter(cfgToken, conn'.update.token)
       /\ conn'.update.emits =
            IF cfgBaseUrl' # cfgBaseUrl \/ cfgToken' # cfgToken THEN 1 ELSE 0]_vars

\* an update that gave a new baseUrl and omitted the token, then the same
\* update again: one emission, the token kept, and nothing the second time
C38_Witness ==
  /\ conn.update.baseUrl = "hub"
  /\ conn.update.token = NotGiven
  /\ conn.update.emits = 0
  /\ cfgBaseUrl = "hub"
  /\ cfgToken = "a b"

----------------------------------------------------------------------------
(* C33: isConnected and the probes, checked under SpecConnect *)

\* C33: whenever isConnected is true, the most recently completed probe was
\* made against the baseUrl and token now configured, and succeeded
C33_ConnectedMeansCurrentConfigProbed ==
  conn.isConnected =>
    /\ conn.lastProbe.made
    /\ conn.lastProbe.ok
    /\ conn.lastProbe.baseUrl = cfgBaseUrl
    /\ conn.lastProbe.token = cfgToken

----------------------------------------------------------------------------
(* C37: the promoter and the user's settings, checked under SpecSettings *)

\* the prompt the loaded settings call for
PromptDue(settings, traceback, lite) ==
  /\ settings.autoPromote
  /\ lite
  /\ \E pattern \in settings.errorPatterns : IncludesText(traceback, pattern)

\* C37: once the settings have been loaded, or loaded again after a change,
\* an error message raises the promotion prompt exactly when the loaded
\* autoPromote is true and one of the loaded errorPatterns occurs in it: none
\* with autoPromote false, and only for the new patterns after a change
C37_AutoPromotionFollowsSettings ==
  (prefs.prompt.made /\ prefs.prompt.loaded) =>
    (prefs.prompt.raised <=>
       PromptDue(prefs.plugin, prefs.prompt.traceback, prefs.prompt.lite))

----------------------------------------------------------------------------
(* C35: stopIfNeeded, checked under SpecStop, where no session is started *)

\* what findByPath(path) resolves to now, both backends answering
FoundByPathNow(path) ==
  FindByPath(PathProbe("remote", path, remSRun, RemoteSessions, "fresh"),
             PathProbe("lite", path, liteSRun, LiteSessions, "fresh")).found

RunningAtPath(path) ==
  {x \in DOMAIN sessions : sessions[x].where \in {"lite", "remote"} /\ paths.at[x] = path}

\* C35: after stopIfNeeded(path) has resolved, findByPath(path) resolves to
\* undefined and no session runs at that path on either backend
C35_NothingAtPathAfterStop ==
  paths.stop.outcome = "resolved" =>
    /\ FoundByPathNow(paths.stop.path) = 0
    /\ RunningAtPath(paths.stop.path) = {}

====
